---- MODULE Spec2Model ----
(***************************************************************************)
(* A model of the isle insurance market simulation.                        *)
(*                                                                         *)
(*   - InsuranceSimulation (src/insurancesimulation.py): the obligation    *)
(*     ledger (receive_obligation / effect_payments / pay / receive), the  *)
(*     catastrophe event schedule (setup_risk_categories) and the tick     *)
(*     loop (iterate), driven by start.py's  for t in range(max_time).     *)
(*   - InsuranceFirm (src/insurancefirms.py): the excess-of-loss tranche   *)
(*     request ask_reinsurance_non_proportional_by_category, with          *)
(*     add_reinsurance / delete_reinsurance / refresh_reinrisk, the        *)
(*     capacity decisions, issue_cat_bond and ask_reinsurance.             *)
(*   - start.py and resume.py: the snapshot save_simulation writes and     *)
(*     resume.main reads; the replication files of the constructor.        *)
(*                                                                         *)
(* Money amounts, values and times are integers.  Python floats are        *)
(* modelled as exact rationals: every comparison of the code is cross-     *)
(* multiplied so that it is decided in integer arithmetic.                 *)
(***************************************************************************)
EXTENDS Integers, Sequences, FiniteSets, TLC

\* ------------------------------------------------------------------ bounds

\* simulation_parameters["max_time"]: start.py iterates t = 0 .. max_time-1.
max_time == 3
\* Most event times one category's schedule holds in the model.
MaxEvents == 2
\* Most obligations registered with the simulation in one run.
MaxObligations == 2
\* Most cash receipts (InsuranceSimulation.receive) in one run.
MaxReceipts == 1
\* Calls of make_reinsurance_claims per tick at most.
MaxSettlements == 2
\* Lines of a replication file at most.
MaxRecords == 3

\* -------------------------------------------------------------- parameters

\* simulation_parameters["money_supply"]
money_supply_0 == 3
\* The capacity target insurer i1 starts with.
capacity_target_0 == 4
\* simulation_parameters["initial_agent_cash"] / ["initial_reinagent_cash"]
initial_cash == 0

\* self.riskcategories = list(range(no_categories))
riskcategories == {0, 1}

\* self.insurancefirms / self.reinsurancefirms, in list order.
insurancefirms == <<"i1", "i2">>
reinsurancefirms == <<"r1">>

RECURSIVE SeqRange(_)
SeqRange(s) == IF s = <<>> THEN {} ELSE {Head(s)} \cup SeqRange(Tail(s))

Firms == SeqRange(insurancefirms) \cup SeqRange(reinsurancefirms)

\* The simulation itself is a recipient too: it defines receive().
Simulation == "simulation"
Recipients == Firms \cup {Simulation}

VARIABLES
    t,                 \* the tick iterate is called for (start.py's loop variable)
    pc,                \* the statement of iterate(t) that runs next
    k,                 \* index of the next firm of the class being iterated
    money_supply,      \* self.money_supply
    obligations,       \* self.obligations: list of {amount, recipient, due_time}
    cash,              \* agent.cash of every firm
    market_premium,    \* self.market_premium, in units of norm_premium / 100
    rc_event_schedule, \* self.rc_event_schedule: per category, list of event times
    reinrisks,         \* self.reinrisks: pool of reinsurance requests
    underwritten_risk_characterisation,
                       \* of insurer i1, per category: total_value, number_risks
    reinsurance_profile,
                       \* of insurer i1, per category: the contracts in force
    underwritten_contracts,
                       \* of insurer i1: category, current_claim, insurancetype
                       \* and linked reincontract of every contract it insures
    capacity_target,   \* of insurer i1
    per_period_dividend,
                       \* of insurer i1
    agent_parameters,  \* of insurer i1: thresholds, factors, dividend share
    called_at,         \* per capacity decision of insurer i1: the last tick
                       \* it was taken in
    \* history variables (not program state)
    log,               \* the steps iterate(t) has run, in order
    inflicted,         \* the <<category, tick>> pairs inflict_peril was called for
    paid,              \* per registered obligation: what was registered, in
                       \* which tick, and the ticks whose effect_payments paid it
    receipts,          \* number of receive() calls so far
    request,           \* the last tranche request or renewal of insurer i1
    asked,             \* whether insurer i1 has requested reinsurance this tick
    settlement,        \* the last make_reinsurance_claims of insurer i1: the
                       \* claims per category and the explode calls it made,
                       \* the number of calls and the claims read in its tick
    decision,          \* the last capacity decision of insurer i1: its inputs,
                       \* what it returned and the calls it made
    schedule_0,        \* rc_event_schedule as set up by the constructor
    data,              \* the files of the directory data/: the snapshot
                       \* simulation_save.pkl and the two replication files
    run,               \* of the program run: save_iter and
                       \* simulation_parameters["reinsurance_type"]; as history the
                       \* ticks iterated so far, whether resume.main has
                       \* run, the records original runs wrote per
                       \* replication id and what the last restore loaded
    weights            \* the simulation's weights and new weights of both
                       \* classes of firms (before the conversion to int64),
                       \* the size of self.risks, the firms that solicited
                       \* since the weights of their class were reset, and
                       \* the number of risks handed out and not returned

sim_vars == <<money_supply, obligations, cash, market_premium, paid, receipts>>
firm_vars == <<underwritten_risk_characterisation, reinsurance_profile, request>>
claim_vars == <<underwritten_contracts, settlement>>
decision_vars == <<capacity_target, per_period_dividend, agent_parameters,
                   called_at, decision>>
org_vars == <<claim_vars, decision_vars>>

vars == <<t, pc, k, rc_event_schedule, reinrisks, log, inflicted, schedule_0, data, run, weights,
          asked, sim_vars, firm_vars, org_vars>>

\* ------------------------------------------------------------ event schedule

\* The gaps int(math.ceil(separation_time)) of one category's draws: the
\* exponential distribution has support [0, inf), so a gap is any integer >= 0
\* (0 for a draw of exactly 0.0); a gap of max_time stands for every larger one.
Gaps == 0..max_time

\* setup_risk_categories, for one category: total starts at 0; every drawn gap
\* is added to it and total is appended while it is below max_time; the loop
\* ends with the first total >= max_time.
RECURSIVE event_schedule(_, _)
event_schedule(total, gaps) ==
    IF gaps = <<>> \/ total >= max_time THEN <<>>
    ELSE LET total1 == total + Head(gaps)
         IN  IF total1 < max_time
             THEN <<total1>> \o event_schedule(total1, Tail(gaps))
             ELSE <<>>

RECURSIVE SumSeq(_)
SumSeq(s) == IF s = <<>> THEN 0 ELSE Head(s) + SumSeq(Tail(s))

\* The gap sequences of a terminating run of the loop: the draws before the last
\* keep total below max_time, the last draw ends it.
GapSeqs ==
    UNION { { g \in [1..n -> Gaps] :
                /\ SumSeq(g) >= max_time
                /\ SumSeq(SubSeq(g, 1, n - 1)) < max_time }
            : n \in 1..(MaxEvents + 1) }

\* --------------------------------------------------------- obligation ledger

\* MetaInsuranceOrg.receive of a firm: accept a cash payment.
firm_receive(c, recipient, amount) == [c EXCEPT ![recipient] = @ + amount]

\* InsuranceSimulation.receive
receive(ms, amount) == ms + amount

\* A pay that credits a firm twice the amount it takes from the money supply.
pay_twice(st, amount, recipient) ==
    IF recipient = Simulation THEN st
    ELSE [money_supply |-> st.money_supply - amount,
          cash |-> firm_receive(st.cash, recipient, 2 * amount)]

\* InsuranceSimulation.pay on st = [money_supply, cash].  The assertion
\* money_supply > amount is caught by the bare except, which only prints: the
\* payment is applied whether or not it holds.
pay(st, amount, recipient) ==
    LET ms1 == st.money_supply - amount
    IN  IF recipient = Simulation
        THEN [money_supply |-> receive(ms1, amount), cash |-> st.cash]
        ELSE [money_supply |-> ms1, cash |-> firm_receive(st.cash, recipient, amount)]

\* An effect_payments that takes only obligations due before time.
is_due_strict(item, time) == item.due_time < time

\* effect_payments: item["due_time"] <= time
is_due(item, time) == item.due_time <= time

RECURSIVE pay_all(_, _)
pay_all(st, due) ==
    IF due = <<>> THEN st
    ELSE pay_all(pay(st, Head(due).amount, Head(due).recipient), Tail(due))

\* effect_payments(time) on st = [money_supply, cash, obligations]
effect_payments(st, time) ==
    LET due  == SelectSeq(st.obligations, LAMBDA item : is_due(item, time))
        rest == SelectSeq(st.obligations, LAMBDA item : ~is_due(item, time))
        p    == pay_all([money_supply |-> st.money_supply, cash |-> st.cash], due)
    IN  [money_supply |-> p.money_supply, cash |-> p.cash, obligations |-> rest,
         due |-> due]

\* ------------------------------------------------------------ market premium

\* norm_premium * no_risks, upper_price_limit and lower_price_limit in percent.
norm_premium_no_risks == 10
upper_price_limit == 120
lower_price_limit == 85

RECURSIVE SumCash(_, _)
SumCash(c, firms) ==
    IF firms = <<>> THEN 0 ELSE c[Head(firms)] + SumCash(c, Tail(firms))

\* adjust_market_premium(capital), in units of 1 / (100 * no_risks):
\* norm_premium * (upper_price_limit - capital / (norm_premium * no_risks)),
\* raised to norm_premium * lower_price_limit when below it.
adjust_market_premium(capital) ==
    LET mp == norm_premium_no_risks * upper_price_limit - 100 * capital
    IN  IF mp < norm_premium_no_risks * lower_price_limit
        THEN norm_premium_no_risks * lower_price_limit
        ELSE mp

\* ------------------------------------------------------ reinsurance profile

\* np_reinsurance_deductible_fraction = 1/10, np_reinsurance_limit_fraction = 5/10
np_reinsurance_deductible_fraction == 1
np_reinsurance_limit_fraction == 5
fraction_denominator == 10

\* isleconfig.simulation_parameters["min_tranches"]
min_tranches == 3

\* np.inf: above every value of the model.
Infinity == 1000 * 1000

\* The book of insurer i1 while its claims are settled, and the categories
\* it seeks reinsurance for.
BookOfClaims == [total_value |-> 1000, number_risks |-> 2]
\* The book of insurer i1 while it decides on further reinsurance.
BookOfCoverage == [total_value |-> 410, number_risks |-> 1]
ReinsuredCategories == {0}

\* The portfolios insurer i1 may hold in a category: total_value and
\* number_risks of underwritten_risk_characterisation.  The values are chosen so
\* that the band bounds and the midpoints of the bisections are integers.
Portfolios ==
    { [total_value |-> 0,    number_risks |-> 0],
      [total_value |-> 410,  number_risks |-> 1],
      [total_value |-> 1000, number_risks |-> 2] }

\* np_reinsurance_limit_fraction * total_value
limit_value(total_value) ==
    (np_reinsurance_limit_fraction * total_value) \div fraction_denominator

\* np_reinsurance_deductible_fraction * total_value
deductible_value(total_value) ==
    (np_reinsurance_deductible_fraction * total_value) \div fraction_denominator

\* The contracts of a category in increasing order of their deductible.
RECURSIVE regions_in_order(_)
regions_in_order(contracts) ==
    IF contracts = {} THEN <<>>
    ELSE LET first == CHOOSE c \in contracts :
                        \A d \in contracts :
                            \/ c.deductible < d.deductible
                            \/ c.deductible = d.deductible /\ c.limit <= d.limit
         IN  <<first>> \o regions_in_order(contracts \ {first})

\* ReinsuranceProfile.uncovered(category): the intervals, in value units and
\* in increasing order, that no contract of the category covers, from 0 up.
RECURSIVE uncovered_from(_, _)
uncovered_from(upper, regions) ==
    IF regions = <<>> THEN << <<upper, Infinity>> >>
    ELSE (IF Head(regions).deductible > upper
          THEN << <<upper, Head(regions).deductible>> >> ELSE <<>>)
         \o uncovered_from(IF Head(regions).limit > upper
                           THEN Head(regions).limit ELSE upper, Tail(regions))

uncovered(profile, category) == uncovered_from(0, regions_in_order(profile[category]))

\* ReinsuranceProfile.all_contracts(): the contracts of every category.
all_contracts(profile) ==
    UNION { { [category |-> c, deductible |-> x.deductible, limit |-> x.limit] :
              x \in profile[c] } : c \in DOMAIN profile }

\* ReinsuranceProfile.split_longest(tranches): bisect the longest interval
\* (the first of them when several are longest).
split_longest(tranches) ==
    LET width(i) == tranches[i][2] - tranches[i][1]
        longest == CHOOSE i \in 1..Len(tranches) :
                     /\ \A j \in 1..Len(tranches) : width(j) <= width(i)
                     /\ \A j \in 1..(i - 1) : width(j) < width(i)
        mid == (tranches[longest][1] + tranches[longest][2]) \div 2
    IN  SubSeq(tranches, 1, longest - 1)
        \o << <<tranches[longest][1], mid>>, <<mid, tranches[longest][2]>> >>
        \o SubSeq(tranches, longest + 1, Len(tranches))

overlaps(x, y) == x.deductible < y.limit /\ y.deductible < x.limit

\* ReinsuranceProfile.add(contract, value): overlapping tranches are fatal.
profile_add(profile, contract, value) ==
    IF \E x \in profile[contract.category] : overlaps(x, contract)
    THEN [error |-> TRUE, profile |-> profile]
    ELSE [error |-> FALSE,
          profile |-> [profile EXCEPT ![contract.category] =
                         @ \cup {[deductible |-> contract.deductible,
                                  limit |-> contract.limit]}]]

\* ReinsuranceProfile.remove(contract, value): releases the contract's interval.
profile_remove(profile, contract, value) ==
    [profile EXCEPT ![contract.category] =
       @ \ {[deductible |-> contract.deductible, limit |-> contract.limit]}]

\* ReinsuranceContract(insurer, risk, ...): deductible and limit in value units
\* are the risk's fractions of the risk's value.
reinsurance_contract(risk) ==
    [category |-> risk.category,
     deductible |-> (risk.deductible_fraction[1] * risk.value)
                      \div risk.deductible_fraction[2],
     limit |-> (risk.limit_fraction[1] * risk.value) \div risk.limit_fraction[2]]

\* ------------------------------------------------------------ tranche request

\* Don't get reinsurance above maximum limit:
\* while tranches[-1][1] > limit: pop the last interval or cut it at the limit.
\* tranches[-1] of an empty list raises IndexError.
RECURSIVE clip_limit(_, _)
clip_limit(tranches, limit) ==
    IF tranches = <<>> THEN [error |-> TRUE, tranches |-> <<>>]
    ELSE LET n == Len(tranches)
         IN  IF tranches[n][2] > limit
             THEN IF tranches[n][1] >= limit
                  THEN clip_limit(SubSeq(tranches, 1, n - 1), limit)
                  ELSE clip_limit([tranches EXCEPT ![n] = <<tranches[n][1], limit>>],
                                  limit)
             ELSE [error |-> FALSE, tranches |-> tranches]

\* while tranches[0][0] < deductible: drop the first interval (and stop when
\* none is left) or raise its lower bound to the deductible.
RECURSIVE clip_deductible(_, _)
clip_deductible(tranches, deductible) ==
    IF tranches[1][1] < deductible
    THEN IF tranches[1][2] <= deductible
         THEN IF Len(tranches) = 1 THEN <<>>
              ELSE clip_deductible(Tail(tranches), deductible)
         ELSE clip_deductible([tranches EXCEPT ![1] = <<deductible, tranches[1][2]>>],
                              deductible)
    ELSE tranches

\* (tranche[1] - tranche[0]) / total_value <=
\*     min(2 / total_value, 0.05 * (limit_fraction - deductible_fraction))
is_small(tranche, total_value) ==
    /\ tranche[2] - tranche[1] <= 2
    /\ (tranche[2] - tranche[1]) * 100 * fraction_denominator
         <= 5 * (np_reinsurance_limit_fraction - np_reinsurance_deductible_fraction)
              * total_value

\* list.remove(x): the list without the first element equal to x.
RECURSIVE remove_first(_, _)
remove_first(list, x) ==
    IF list = <<>> THEN <<>>
    ELSE IF Head(list) = x THEN Tail(list)
    ELSE <<Head(list)>> \o remove_first(Tail(list), x)

\* for tranche in tranches: if small: tranches.remove(tranche).  The for loop
\* walks the list by index while remove shortens it: the interval that follows
\* a removed one moves into its place and is not visited.
RECURSIVE discard_small(_, _, _)
discard_small(tranches, i, total_value) ==
    IF i > Len(tranches) THEN tranches
    ELSE IF is_small(tranches[i], total_value)
    THEN discard_small(remove_first(tranches, tranches[i]), i + 1, total_value)
    ELSE discard_small(tranches, i + 1, total_value)

\* A request that never bisects.
no_split(tranches, profile) == tranches

\* while len(tranches) < min_tranches and not all_contracts(): split_longest
RECURSIVE split_to_minimum(_, _)
split_to_minimum(tranches, profile) ==
    IF Len(tranches) < min_tranches /\ all_contracts(profile) = {}
    THEN split_to_minimum(split_longest(tranches), profile)
    ELSE tranches

\* genericclasses.RiskProperties of one tranche
tranche_risk(tranche, category, characterisation) ==
    [category |-> category,
     value |-> characterisation.total_value,
     number_risks |-> characterisation.number_risks,
     deductible_fraction |-> <<tranche[1], characterisation.total_value>>,
     limit_fraction |-> <<tranche[2], characterisation.total_value>>]

\* A request that treats every category as holding risks.
always_has_risks(characterisation, categ_id) == TRUE

\* ask_reinsurance_non_proportional_by_category: if number_risks > 0
has_risks(characterisation, categ_id) == characterisation[categ_id].number_risks > 0

\* ask_reinsurance_non_proportional_by_category(time, categ_id, purpose) from
\* line 276 on, tranches_0 being the list uncovered(categ_id) returned:
\* outcome is "no_risks" (number_risks = 0: nothing is done), "IndexError",
\* "give_up" (no tranche is left: return None), "AssertionError" (a tranche
\* with tranche[1] <= tranche[0]) or "risks"; clipped and kept are the
\* intervals after the clipping and after the discard step.
request_tranches(tranches_0, characterisation, profile, categ_id) ==
    LET total_value == characterisation[categ_id].total_value
        none == [outcome |-> "no_risks", category |-> categ_id,
                 total_value |-> total_value,
                 had_contracts |-> all_contracts(profile) # {},
                 clipped |-> <<>>, kept |-> <<>>, tranches |-> <<>>, risks |-> <<>>]
    IN  IF has_risks(characterisation, categ_id)
        THEN LET upper == clip_limit(tranches_0, limit_value(total_value))
             IN  IF upper.error THEN [none EXCEPT !.outcome = "IndexError"]
                 ELSE LET clipped == clip_deductible(upper.tranches,
                                                     deductible_value(total_value))
                          kept == discard_small(clipped, 1, total_value)
                          tranches == split_to_minimum(kept, profile)
                          result == [none EXCEPT !.clipped = clipped, !.kept = kept]
                      IN  IF kept = <<>> THEN [result EXCEPT !.outcome = "give_up"]
                          ELSE IF \E i \in 1..Len(tranches) :
                                    ~(tranches[i][2] > tranches[i][1])
                          THEN [result EXCEPT !.outcome = "AssertionError",
                                              !.tranches = tranches]
                          ELSE [result EXCEPT
                                  !.outcome = "risks", !.tranches = tranches,
                                  !.risks = [i \in 1..Len(tranches) |->
                                               tranche_risk(tranches[i], categ_id,
                                                            characterisation[categ_id])]]
        ELSE none

\* ask_reinsurance_non_proportional_by_category(time, categ_id, purpose)
ask_reinsurance_non_proportional_by_category(characterisation, profile, categ_id) ==
    request_tranches(uncovered(profile, categ_id), characterisation, profile,
                     categ_id)

\* refresh_reinrisk(time, old_contract): None when the category holds no risk,
\* else a risk with the old contract's deductible and limit as fractions of the
\* category's present total value.
refresh_reinrisk(characterisation, old_contract) ==
    LET c == characterisation[old_contract.category]
    IN  IF c.number_risks = 0 THEN <<>>
        ELSE << tranche_risk(<<old_contract.deductible, old_contract.limit>>,
                             old_contract.category, c) >>

\* ------------------------------------------------------- capacity decisions

\* The capacity decisions insurer i1 takes once per tick.
Methods == {"adjust_capacity_target", "adjust_dividends", "increase_capacity"}

\* Python floats are modelled as exact fractions <<numerator, denominator>>
\* in lowest terms with a positive denominator.
RECURSIVE GCD(_, _)
GCD(a, b) == IF b = 0 THEN a ELSE GCD(b, a % b)

Abs(n) == IF n < 0 THEN 0 - n ELSE n

Rat(n, d) ==
    LET g == GCD(Abs(n), d) IN IF n = 0 THEN <<0, 1>> ELSE <<n \div g, d \div g>>

RAdd(x, y) == Rat(x[1] * y[2] + y[1] * x[2], x[2] * y[2])
RSub(x, y) == Rat(x[1] * y[2] - y[1] * x[2], x[2] * y[2])
RMul(x, y) == Rat(x[1] * y[1], x[2] * y[2])
RLess(x, y) == x[1] * y[2] < y[1] * x[2]
RMin(x, y) == IF RLess(y, x) THEN y ELSE x
RMax(x, y) == IF RLess(x, y) THEN y ELSE x

\* The parameters of insurer i1 the capacity decisions read:
\* capacity_target_increment_threshold, capacity_target_decrement_threshold,
\* capacity_target_increment_factor, capacity_target_decrement_factor and
\* dividend_share_of_profits.
default_parameters ==
    [increment_threshold |-> <<6, 5>>, decrement_threshold |-> <<9, 5>>,
     increment_factor |-> <<25, 24>>, decrement_factor |-> <<24, 25>>,
     dividend_share_of_profits |-> <<2, 5>>]

\* The configurations of thresholds and factors: the default one, whose
\* decrement threshold lies above its increment threshold, one with a band
\* between a lower decrement and a higher increment threshold, and one whose
\* thresholds coincide.
Configurations ==
    { default_parameters,
      [default_parameters EXCEPT !.increment_threshold = <<2, 1>>,
                                 !.decrement_threshold = <<1, 1>>],
      [default_parameters EXCEPT !.increment_threshold = <<1, 1>>,
                                 !.decrement_threshold = <<1, 1>>,
                                 !.increment_factor = <<2, 1>>,
                                 !.decrement_factor = <<1, 2>>] }

\* One region's share of get_reinsurable_fraction: the part of the region
\* inside the reinsurable band, as a fraction of value.
region_fraction(region, value) ==
    IF /\ fraction_denominator * region[2] > np_reinsurance_deductible_fraction * value
       /\ fraction_denominator * region[1] < np_reinsurance_limit_fraction * value
    THEN RSub(RMin(Rat(region[2], value),
                   Rat(np_reinsurance_limit_fraction, fraction_denominator)),
              RMax(Rat(region[1], value),
                   Rat(np_reinsurance_deductible_fraction, fraction_denominator)))
    ELSE <<0, 1>>

RECURSIVE regions_fraction(_, _)
regions_fraction(regions, value) ==
    IF regions = <<>> THEN <<0, 1>>
    ELSE RAdd(region_fraction(Head(regions), value),
              regions_fraction(Tail(regions), value))

RECURSIVE categories_fraction(_, _, _)
categories_fraction(categs, value_by_category, profile) ==
    IF categs = {} THEN <<0, 1>>
    ELSE LET categ == CHOOSE c \in categs : TRUE
         IN  RAdd(regions_fraction(uncovered(profile, categ), value_by_category[categ]),
                  categories_fraction(categs \ {categ}, value_by_category, profile))

\* get_reinsurable_fraction(value_by_category): the uncovered part of the
\* reinsurable band of every category, averaged over the categories.
get_reinsurable_fraction(value_by_category, profile) ==
    RMul(categories_fraction(DOMAIN value_by_category, value_by_category, profile),
         <<1, Cardinality(DOMAIN value_by_category)>>)

\* get_reinsurance_var_estimate(max_var): the values it passes on are
\* underwritten_risk_characterisation[categ][2], the number of risks.
get_reinsurance_var_estimate(characterisation, profile, max_var) ==
    RMul(<<max_var, 1>>,
         RAdd(<<1, 1>>,
              get_reinsurable_fraction(
                  [c \in DOMAIN characterisation |-> characterisation[c].number_risks],
                  profile)))

\* adjust_capacity_target with both comparisons inclusive.
adjust_capacity_target_inclusive(parameters, target, estimate, max_var) ==
    LET ratio_above(x) == ~RLess(RMul(x, RAdd(<<max_var, 1>>, estimate)),
                                 RAdd(target, estimate))
        ratio_below(x) == ~RLess(RAdd(target, estimate),
                                 RMul(x, RAdd(<<max_var, 1>>, estimate)))
    IN  IF RAdd(<<max_var, 1>>, estimate) = <<0, 1>>
        THEN RMul(target, parameters.increment_factor)
        ELSE IF ratio_above(parameters.increment_threshold)
        THEN RMul(target, parameters.increment_factor)
        ELSE IF ratio_below(parameters.decrement_threshold)
        THEN RMul(target, parameters.decrement_factor)
        ELSE target

\* adjust_capacity_target leaving the target alone when max_var +
\* reinsurance_var_estimate is zero.
adjust_capacity_target_unchanged_at_zero(parameters, target, estimate, max_var) ==
    LET ratio_above(x) == RLess(RMul(x, RAdd(<<max_var, 1>>, estimate)),
                                RAdd(target, estimate))
        ratio_below(x) == RLess(RAdd(target, estimate),
                                RMul(x, RAdd(<<max_var, 1>>, estimate)))
    IN  IF RAdd(<<max_var, 1>>, estimate) = <<0, 1>>
        THEN target
        ELSE IF ratio_above(parameters.increment_threshold)
        THEN RMul(target, parameters.increment_factor)
        ELSE IF ratio_below(parameters.decrement_threshold)
        THEN RMul(target, parameters.decrement_factor)
        ELSE target

\* adjust_capacity_target(max_var): the capacity target it leaves.  The ratio
\* (target + estimate) / (max_var + estimate) is compared by multiplying out
\* its denominator, which is positive; it is np.inf, above every threshold,
\* when the denominator is zero.
adjust_capacity_target(parameters, target, estimate, max_var) ==
    LET ratio_above(x) == RLess(RMul(x, RAdd(<<max_var, 1>>, estimate)),
                                RAdd(target, estimate))
        ratio_below(x) == RLess(RAdd(target, estimate),
                                RMul(x, RAdd(<<max_var, 1>>, estimate)))
    IN  IF RAdd(<<max_var, 1>>, estimate) = <<0, 1>>
        THEN RMul(target, parameters.increment_factor)
        ELSE IF ratio_above(parameters.increment_threshold)
        THEN RMul(target, parameters.increment_factor)
        ELSE IF ratio_below(parameters.decrement_threshold)
        THEN RMul(target, parameters.decrement_factor)
        ELSE target

\* adjust_dividends without the max that keeps dividends non-negative.
adjust_dividends_unclamped(parameters, target, profits, actual_capacity) ==
    IF RLess(actual_capacity, target) THEN <<0, 1>>
    ELSE RMul(parameters.dividend_share_of_profits, <<profits, 1>>)

\* adjust_dividends(time, actual_capacity): the per_period_dividend it leaves.
adjust_dividends(parameters, target, profits, actual_capacity) ==
    IF RLess(actual_capacity, target) THEN <<0, 1>>
    ELSE RMax(<<0, 1>>, RMul(parameters.dividend_share_of_profits, <<profits, 1>>))

\* get_capacity(max_var)
get_capacity(firm_cash, estimate, max_var) ==
    IF max_var < firm_cash THEN RAdd(<<firm_cash, 1>>, estimate)
    ELSE <<firm_cash, 1>>

\* --------------------------------------------------------- claim settlement

\* The claims a peril can realise on one insurance contract, in value units;
\* 0 when the contract's uniform draw spares it.
Damages == {0, 150}

\* InsuranceContract.explode(expire_immediately, time, uniform_value,
\* damage_extent): the claim accumulates for the settlement of the tick.
explode(contract, claim) ==
    [contract EXCEPT !.current_claim = @ + claim]

\* contract.get_and_reset_current_claim(): the category, the accumulated claim
\* and whether the contract is proportional; the accumulated claim is zeroed.
get_and_reset_current_claim(contract) ==
    [categ_id |-> contract.category,
     claims |-> contract.current_claim,
     is_proportional |-> contract.insurancetype = "proportional",
     contract |-> [contract EXCEPT !.current_claim = 0]]

\* ReinsuranceProfile.contracts_to_explode(damage, category): the layers of
\* the category the damage reaches.
contracts_to_explode(profile, damage, category) ==
    { x \in profile[category] : x.deductible < damage }

\* The contracts as a settlement that reads the claims without zeroing them
\* would leave them.
unsettled_contracts(contracts) == contracts

\* The contracts after make_reinsurance_claims has read every claim.
settled_contracts(contracts) ==
    [i \in DOMAIN contracts |-> get_and_reset_current_claim(contracts[i]).contract]

RECURSIVE claims_of(_, _)
claims_of(contracts, categ_id) ==
    IF contracts = <<>> THEN 0
    ELSE LET r == get_and_reset_current_claim(Head(contracts))
         IN  (IF r.is_proportional /\ r.categ_id = categ_id THEN r.claims ELSE 0)
             + claims_of(Tail(contracts), categ_id)

RECURSIVE SumOver(_, _)
SumOver(S, f) ==
    IF S = {} THEN 0
    ELSE LET x == CHOOSE y \in S : TRUE IN f[x] + SumOver(S \ {x}, f)

\* make_reinsurance_claims(time): the claims of the tick per category, the
\* explode calls on the reinsurance linked to single contracts (linked), the
\* explode calls on the layers of the profile (exploded), and the contracts
\* with their claims read.
make_reinsurance_claims(contracts, profile) ==
    LET claims_this_turn == [c \in riskcategories |-> claims_of(contracts, c)]
    IN  [claims_this_turn |-> claims_this_turn,
         linked |-> { [contract |-> i,
                       damage_extent |->
                         get_and_reset_current_claim(contracts[i]).claims] :
                      i \in { j \in DOMAIN contracts : contracts[j].reincontract } },
         exploded |-> UNION { { [category |-> c, deductible |-> x.deductible,
                                 limit |-> x.limit,
                                 damage_extent |-> claims_this_turn[c]] :
                                x \in contracts_to_explode(profile,
                                                           claims_this_turn[c], c) } :
                              c \in { d \in riskcategories :
                                        claims_this_turn[d] > 0 } },
         contracts |-> settled_contracts(contracts)]

\* ------------------------------------------------------------------ weights

\* simulation_parameters["no_risks"]: the size of self.risks when the run starts
no_risks == 4

\* An entry of a weight array before np.int64 converts it: a finite value, or
\* the nan (or infinity) a division by a zero sum leaves.
finite(value) == [finite |-> TRUE, value |-> value]
nan == [finite |-> FALSE, value |-> 0]

\* What np.int64 may make of nan: the smallest int64 (written 0 - Infinity
\* here), or 0, depending on the build.
NaNCasts == {0 - Infinity, 0}

\* np.int64(w): the values the conversion may produce
int64(w) == IF w.finite THEN {w.value} ELSE NaNCasts

RECURSIVE sum(_)
sum(values) == IF values = <<>> THEN 0 ELSE Head(values) + sum(Tail(values))

\* np.floor(np.asarray(new_weights) / sum(new_weights) * pool_size)
reset_weights(new_weights, pool_size) ==
    LET total == sum(new_weights)
    IN  [i \in DOMAIN new_weights |->
           IF total = 0 THEN nan
           ELSE IF total > 0
                THEN finite((new_weights[i] * pool_size) \div total)
                ELSE finite(((0 - new_weights[i]) * pool_size) \div (0 - total))]

\* list(np.zeros(len(firms)))
zeros(firms) == [i \in DOMAIN firms |-> 0]

\* len(pool[:w]) for a pool of the given size
slice_length(pool_size, w) ==
    IF w >= 0
    THEN IF w < pool_size THEN w ELSE pool_size
    ELSE IF pool_size + w > 0 THEN pool_size + w ELSE 0

\* accept_agents: the weights are 1 and the new weights the firms' cash
accept_agents(c) ==
    [insurancefirm_weights |-> [i \in DOMAIN insurancefirms |-> finite(1)],
     insurancefirm_new_weights |->
       [i \in DOMAIN insurancefirms |-> c[insurancefirms[i]]],
     reinsurancefirm_weights |-> [i \in DOMAIN reinsurancefirms |-> finite(1)],
     reinsurancefirm_new_weights |->
       [i \in DOMAIN reinsurancefirms |-> c[reinsurancefirms[i]]],
     risks |-> no_risks,
     returned |-> <<>>,
     solicited |-> {},
     handed_out |-> [i \in DOMAIN insurancefirms |-> 0]]

\* ------------------------------------------------------------------- iterate

\* The statements of iterate(t), in program order.
iterate_order ==
    << "adjust_market_premium", "effect_payments", "perils", "shuffle_risks",
       "reset_reinsurance_weights", "reinsurers", "clear_reinrisks",
       "reset_insurance_weights", "insurers" >>

IndexOf(s, x) == CHOOSE i \in 1..Len(s) : s[i] = x

\* An iterate that inflicts the perils of t before it settles the obligations.
step_after_perils_first(p) ==
    CASE p = "adjust_market_premium" -> "perils"
      [] p = "perils" -> "effect_payments"
      [] p = "effect_payments" -> "shuffle_risks"
      [] p = "insurers" -> "return"
      [] OTHER -> iterate_order[IndexOf(iterate_order, p) + 1]

\* The statement that follows statement p ("return" after the last one).
step_after(p) ==
    LET i == IndexOf(iterate_order, p)
    IN  IF i < Len(iterate_order) THEN iterate_order[i + 1] ELSE "return"

\* Leaving statement p: the next statement of iterate(t), or start.py's loop
\* calling iterate(t + 1) (and ending after iterate(max_time - 1)).
Advance(p) ==
    IF step_after(p) = "return"
    THEN /\ t' = t + 1
         /\ pc' = IF t + 1 < max_time THEN iterate_order[1] ELSE "finished"
    ELSE /\ t' = t
         /\ pc' = step_after(p)

\* start.py: if t % 50 == save_iter
save_period == 50

\* start.py, __main__: save_iter = 200 unless --save_iterations is given
default_save_iter == 200

\* replic_ID = None
None == 0 - 1

\* The simulation object with everything it references, as pickle writes it.
simulation ==
    [money_supply |-> money_supply, obligations |-> obligations, cash |-> cash,
     market_premium |-> market_premium, rc_event_schedule |-> rc_event_schedule,
     reinrisks |-> reinrisks, weights |-> weights,
     underwritten_risk_characterisation |-> underwritten_risk_characterisation,
     reinsurance_profile |-> reinsurance_profile,
     underwritten_contracts |-> underwritten_contracts,
     capacity_target |-> capacity_target,
     per_period_dividend |-> per_period_dividend,
     agent_parameters |-> agent_parameters, called_at |-> called_at]

\* start.save_simulation(t, sim, sim_param): the dictionary written to
\* data/simulation_save.pkl, replacing what the file held.
save_simulation(files, time, sim) ==
    [files EXCEPT !.simulation_save =
       <<[np_seed |-> "np.random.get_state()", random_seed |-> "random.getstate()",
          time |-> time, simulation |-> sim,
          simulation_parameters |-> "sim_param"]>>]

\* The directory data/ without a snapshot, the replication files holding the
\* given lines.
files_with(lines) ==
    [simulation_save |-> <<>>,
     replication_randomseed |-> [i \in DOMAIN lines |-> lines[i].randomseed],
     replication_rc_event_schedule |-> [i \in DOMAIN lines |-> lines[i].schedule]]

\* A run started with the given save_iter, before its first tick.
run_with(save_iter) ==
    [save_iter |-> save_iter, reinsurance_type |-> "non-proportional",
     ticks |-> <<>>, resumed |-> FALSE,
     written |-> <<>>,
     restored |-> [replic_ID |-> None, found |-> FALSE, written |-> <<>>]]

\* The simulation and its agents after construction by start.main.
InitState(gap_seqs, cash_levels, configurations) ==
    /\ t = 0
    /\ pc = iterate_order[1]
    /\ k = 1
    /\ money_supply = money_supply_0
    /\ obligations = <<>>
    /\ \E c \in cash_levels :
         cash = [f \in Firms |-> IF f = insurancefirms[1] THEN c ELSE initial_cash]
    /\ market_premium = norm_premium_no_risks * 100
    /\ rc_event_schedule \in
         [riskcategories -> { event_schedule(0, g) : g \in gap_seqs }]
    /\ reinrisks = <<>>
    /\ log = <<>>
    /\ inflicted = {}
    /\ paid = <<>>
    /\ receipts = 0
    /\ schedule_0 = rc_event_schedule
    /\ weights = accept_agents(cash)
    /\ underwritten_risk_characterisation =
         [c \in riskcategories |-> [total_value |-> 0, number_risks |-> 0]]
    /\ reinsurance_profile = [c \in riskcategories |-> {}]
    /\ request = [outcome |-> "none"]
    /\ asked = FALSE
    /\ underwritten_contracts = <<>>
    /\ capacity_target = <<capacity_target_0, 1>>
    /\ per_period_dividend = <<0, 1>>
    /\ agent_parameters \in configurations
    /\ called_at = [m \in Methods |-> 0 - 1]
    /\ settlement = [calls |-> 0, time |-> 0, read |-> 0]
    /\ decision = [call |-> "none"]

\* The state after construction, the run saving with the default save_iter
\* and the directory data/ holding no file.
InitOf(gap_seqs, cash_levels, configurations) ==
    /\ data = files_with(<<>>)
    /\ run = run_with(default_save_iter)
    /\ InitState(gap_seqs, cash_levels, configurations)

InitWith(gap_seqs) == InitOf(gap_seqs, {initial_cash}, {default_parameters})

\* iterate: sum_capital = sum of the insurers' cash; adjust_market_premium
AdjustMarketPremium ==
    /\ pc = "adjust_market_premium"
    /\ market_premium' = adjust_market_premium(SumCash(cash, insurancefirms))
    /\ log' = <<"adjust_market_premium">>
    /\ asked' = FALSE
    /\ Advance("adjust_market_premium")
    /\ UNCHANGED <<k, money_supply, obligations, cash, rc_event_schedule, reinrisks,
                   inflicted, paid, receipts, schedule_0, data, run, weights, firm_vars,
                   org_vars>>

\* iterate: self.effect_payments(t)
EffectPayments ==
    /\ pc = "effect_payments"
    /\ LET r == effect_payments([money_supply |-> money_supply, cash |-> cash,
                                 obligations |-> obligations], t)
       IN  /\ money_supply' = r.money_supply
           /\ cash' = r.cash
           /\ obligations' = r.obligations
           /\ paid' = [i \in DOMAIN paid |->
                         IF \E j \in DOMAIN r.due : r.due[j].id = i
                         THEN [paid[i] EXCEPT !.times = Append(@, t)] ELSE paid[i]]
    /\ log' = Append(log, "effect_payments")
    /\ Advance("effect_payments")
    /\ UNCHANGED <<k, market_premium, rc_event_schedule, reinrisks, inflicted,
                   receipts, schedule_0, data, run, weights, asked, firm_vars,
                   org_vars>>

\* iterate, one category of the loop over rc_event_schedule: the assertion
\* head >= t is caught by the bare except, which only prints; the category
\* fires when its schedule is not empty and its head equals t.
fires(schedule, time) == Len(schedule) > 0 /\ schedule[1] = time

CategorySeq == [i \in 1..Cardinality(riskcategories) |-> i - 1]

\* inflict_peril: every contract of every insurer, whatever its category
contracts_of_any_category(contracts, categ_id) == DOMAIN contracts

\* inflict_peril: affected_contracts, the contracts of the insurers whose
\* category is categ_id
affected_contracts(contracts, categ_id) ==
    { i \in DOMAIN contracts : contracts[i].category = categ_id }

\* inflict_peril(categ_id, t): explode is called on every affected contract
\* with the draws of its position, damages[i] being what they realise on
\* contract i.
inflict_peril(contracts, categ_id, damages) ==
    [i \in DOMAIN contracts |->
       IF i \in affected_contracts(contracts, categ_id)
       THEN explode(contracts[i], damages[i])
       ELSE contracts[i]]

\* iterate: inflict_peril for the categories of the list, in order
RECURSIVE inflict_perils(_, _, _)
inflict_perils(contracts, categories, damages) ==
    IF categories = <<>> THEN contracts
    ELSE inflict_perils(inflict_peril(contracts, Head(categories), damages),
                        Tail(categories), damages)

\* iterate: identify perils and effect claims, for every category in order
Perils ==
    /\ pc = "perils"
    /\ rc_event_schedule' =
         [c \in riskcategories |->
            IF fires(rc_event_schedule[c], t)
            THEN Tail(rc_event_schedule[c]) ELSE rc_event_schedule[c]]
    /\ inflicted' = inflicted \cup
         { <<c, t>> : c \in { d \in riskcategories : fires(rc_event_schedule[d], t) } }
    /\ log' = log \o [i \in 1..Cardinality({ d \in riskcategories :
                                               fires(rc_event_schedule[d], t) })
                        |-> "inflict_peril"]
    /\ \E damages \in [DOMAIN underwritten_contracts -> Damages] :
         underwritten_contracts' =
           inflict_perils(underwritten_contracts,
                          SelectSeq(CategorySeq,
                                    LAMBDA c : fires(rc_event_schedule[c], t)),
                          damages)
    /\ Advance("perils")
    /\ UNCHANGED <<k, money_supply, obligations, cash, market_premium, reinrisks,
                   paid, receipts, schedule_0, data, run, weights, asked, firm_vars,
                   settlement, decision_vars>>

Shuffles(s) ==
    { [i \in 1..Len(s) |-> s[f[i]]] :
        f \in { g \in [1..Len(s) -> 1..Len(s)] :
                  \A i, j \in 1..Len(s) : i # j => g[i] # g[j] } }

\* iterate: self.shuffle_risks()
ShuffleRisks ==
    /\ pc = "shuffle_risks"
    /\ reinrisks' \in Shuffles(reinrisks)
    /\ weights' = [weights EXCEPT !.returned = <<>>]
    /\ log' = Append(log, "shuffle_risks")
    /\ Advance("shuffle_risks")
    /\ UNCHANGED <<k, money_supply, obligations, cash, market_premium,
                   rc_event_schedule, inflicted, paid, receipts,
                   schedule_0, data, run, asked, firm_vars,
                   org_vars>>

\* iterate: self.reset_reinsurance_weights()
ResetReinsuranceWeights ==
    /\ pc = "reset_reinsurance_weights"
    /\ weights' =
         [weights EXCEPT
            !.reinsurancefirm_weights =
               reset_weights(weights.reinsurancefirm_new_weights, Len(reinrisks)),
            !.reinsurancefirm_new_weights = zeros(reinsurancefirms),
            !.solicited = @ \ SeqRange(reinsurancefirms)]
    /\ log' = Append(log, "reset_reinsurance_weights")
    /\ Advance("reset_reinsurance_weights")
    /\ UNCHANGED <<k, money_supply, obligations, cash, market_premium,
                   rc_event_schedule, reinrisks, inflicted, paid,
                   receipts, schedule_0, data, run, asked, firm_vars,
                   org_vars>>

\* iterate: for reinagent in self.reinsurancefirms: reinagent.iterate(t)
ReinsurerIterate ==
    /\ pc = "reinsurers"
    /\ k <= Len(reinsurancefirms)
    /\ log' = Append(log, "reinagent.iterate")
    /\ IF k < Len(reinsurancefirms)
       THEN k' = k + 1 /\ UNCHANGED <<t, pc,
                   org_vars>>
       ELSE k' = 1 /\ Advance("reinsurers")
    /\ UNCHANGED <<money_supply, obligations, cash, market_premium,
                   rc_event_schedule, reinrisks, inflicted, paid,
                   receipts, schedule_0, data, run, weights, asked, firm_vars,
                   org_vars>>

\* An iterate that keeps the reinsurance risks no reinsurer accepted.
KeepReinrisks ==
    /\ pc = "clear_reinrisks"
    /\ log' = Append(log, "clear_reinrisks")
    /\ Advance("clear_reinrisks")
    /\ UNCHANGED <<k, money_supply, obligations, cash, market_premium,
                   rc_event_schedule, reinrisks, inflicted, paid, receipts,
                   schedule_0, data, run, weights, asked, firm_vars,
                   org_vars>>

\* iterate: self.reinrisks = []
ClearReinrisks ==
    /\ pc = "clear_reinrisks"
    /\ reinrisks' = <<>>
    /\ log' = Append(log, "clear_reinrisks")
    /\ Advance("clear_reinrisks")
    /\ UNCHANGED <<k, money_supply, obligations, cash, market_premium,
                   rc_event_schedule, inflicted, paid, receipts,
                   schedule_0, data, run, weights, asked, firm_vars,
                   org_vars>>

\* iterate: self.reset_insurance_weights()
ResetInsuranceWeights ==
    /\ pc = "reset_insurance_weights"
    /\ weights' =
         [weights EXCEPT
            !.insurancefirm_weights =
               reset_weights(weights.insurancefirm_new_weights, weights.risks),
            !.insurancefirm_new_weights = zeros(insurancefirms),
            !.solicited = @ \ SeqRange(insurancefirms)]
    /\ log' = Append(log, "reset_insurance_weights")
    /\ Advance("reset_insurance_weights")
    /\ UNCHANGED <<k, money_supply, obligations, cash, market_premium,
                   rc_event_schedule, reinrisks, inflicted, paid,
                   receipts, schedule_0, data, run, asked, firm_vars,
                   org_vars>>

\* iterate: for agent in self.insurancefirms: agent.iterate(t); after the
\* last of them iterate(t) returns to start.py's loop, which saves the
\* simulation if t % 50 == save_iter.
InsurerIterate ==
    /\ pc = "insurers"
    /\ k <= Len(insurancefirms)
    /\ log' = Append(log, "agent.iterate")
    /\ IF k < Len(insurancefirms)
       THEN k' = k + 1 /\ UNCHANGED <<t, pc, data, run,
                   org_vars>>
       ELSE /\ k' = 1
            /\ Advance("insurers")
            /\ run' = [run EXCEPT !.ticks = Append(@, t)]
            /\ data' = IF t % save_period = run.save_iter
                       THEN save_simulation(data, t, simulation)
                       ELSE data
    /\ UNCHANGED <<money_supply, obligations, cash, market_premium,
                   rc_event_schedule, reinrisks, inflicted, paid,
                   receipts, schedule_0, weights, asked, firm_vars,
                   org_vars>>

\* ------------------------------------------- the firms' calls while iterating

\* The pool self.risks is held as its length, risks, and its tail returned:
\* the risks given back by return_risks since the last shuffle, each named by
\* the insurer that returned it, in the order of the list.  The risks before
\* the tail have not been handed out since the shuffle.

\* self.risks[n:] for a pool whose tail is returned
drop_first(returned, fresh, n) ==
    IF n <= fresh THEN returned ELSE SubSeq(returned, n - fresh + 1, Len(returned))

\* A solicit_insurance_requests that leaves the risks it hands out in the pool.
SolicitWithoutRemoving(i) ==
    /\ pc = "insurers"
    /\ insurancefirms[i] \notin weights.solicited
    /\ \E w \in int64(weights.insurancefirm_weights[i]) :
         LET sent == slice_length(weights.risks, w)
         IN  weights' =
               [weights EXCEPT
                  !.insurancefirm_new_weights[i] = cash[insurancefirms[i]],
                  !.handed_out[i] = @ + sent,
                  !.solicited = @ \cup {insurancefirms[i]}]
    /\ UNCHANGED <<t, pc, k, rc_event_schedule, reinrisks, log, inflicted,
                   schedule_0, data, run, asked, sim_vars, firm_vars, org_vars>>

\* Insurer number i (its id being i - 1) calls
\* solicit_insurance_requests(id, cash) from its iterate(t), once a tick: its
\* new weight becomes its cash and it is handed the first
\* int(insurancefirm_weights[id]) risks of the pool.
SolicitInsuranceRequests(i) ==
    /\ pc = "insurers"
    /\ insurancefirms[i] \notin weights.solicited
    /\ \E w \in int64(weights.insurancefirm_weights[i]) :
         LET sent == slice_length(weights.risks, w)
         IN  weights' =
               [weights EXCEPT
                  !.insurancefirm_new_weights[i] = cash[insurancefirms[i]],
                  !.risks = @ - sent,
                  !.returned = drop_first(@, weights.risks - Len(@), sent),
                  !.handed_out[i] = @ + sent,
                  !.solicited = @ \cup {insurancefirms[i]}]
    /\ UNCHANGED <<t, pc, k, rc_event_schedule, reinrisks, log, inflicted,
                   schedule_0, data, run, asked, sim_vars, firm_vars, org_vars>>

\* Reinsurer number i calls solicit_reinsurance_requests(id, cash) from its
\* iterate(t), once a tick.
SolicitReinsuranceRequests(i) ==
    /\ pc = "reinsurers"
    /\ reinsurancefirms[i] \notin weights.solicited
    /\ \E w \in int64(weights.reinsurancefirm_weights[i]) :
         LET sent == slice_length(Len(reinrisks), w)
         IN  /\ reinrisks' = SubSeq(reinrisks, sent + 1, Len(reinrisks))
             /\ weights' =
                  [weights EXCEPT
                     !.reinsurancefirm_new_weights[i] = cash[reinsurancefirms[i]],
                     !.solicited = @ \cup {reinsurancefirms[i]}]
    /\ UNCHANGED <<t, pc, k, rc_event_schedule, log, inflicted,
                   schedule_0, data, run, asked, sim_vars, firm_vars, org_vars>>

\* Insurer number i calls return_risks(not_accepted_risks) with n of the
\* risks it was handed: they join the end of the pool.
ReturnRisks(i, n) ==
    /\ pc = "insurers"
    /\ n <= weights.handed_out[i]
    /\ weights' = [weights EXCEPT
                     !.risks = @ + n,
                     !.returned = @ \o [j \in 1..n |-> insurancefirms[i]],
                     !.handed_out[i] = @ - n]
    /\ UNCHANGED <<t, pc, k, rc_event_schedule, reinrisks, log, inflicted,
                   schedule_0, data, run, asked, sim_vars, firm_vars, org_vars>>

\* A firm's iterate(t) is running.
FirmIterating == pc \in {"reinsurers", "insurers"}

\* receive_obligation(amount, recipient, due_time), called by a firm or a
\* contract while a firm iterates.  id numbers the obligations in the order
\* of their registration; it links the ledger entry to its history.
ReceiveObligation(amount, recipient, due_time) ==
    /\ FirmIterating
    /\ Len(paid) < MaxObligations
    /\ obligations' = Append(obligations,
                              [amount |-> amount, recipient |-> recipient,
                               due_time |-> due_time, id |-> Len(paid) + 1])
    /\ paid' = Append(paid, [amount |-> amount, recipient |-> recipient,
                             due_time |-> due_time, registered |-> t,
                             times |-> <<>>])
    /\ UNCHANGED <<t, pc, k, money_supply, cash, market_premium, rc_event_schedule,
                   reinrisks, log, inflicted, receipts, schedule_0, data, run, weights, asked, firm_vars,
                   org_vars>>

\* receive(amount): a firm pays the simulation
Receive(amount) ==
    /\ FirmIterating
    /\ receipts < MaxReceipts
    /\ money_supply' = receive(money_supply, amount)
    /\ receipts' = receipts + 1
    /\ UNCHANGED <<t, pc, k, obligations, cash, market_premium, rc_event_schedule,
                   reinrisks, log, inflicted, paid, schedule_0, data, run, weights, asked, firm_vars,
                   org_vars>>

\* --------------------------------------------------- reinsurance of insurer i1

\* The contracts insurer i1 holds, with their category.
Contracts == all_contracts(reinsurance_profile)

\* add_reinsurance(contract): value is the category's present total value.
add_reinsurance(characterisation, profile, contract) ==
    profile_add(profile, contract, characterisation[contract.category].total_value)

\* delete_reinsurance(contract)
delete_reinsurance(characterisation, profile, contract) ==
    profile_remove(profile, contract, characterisation[contract.category].total_value)

\* The book of insurer i1 changes in category c (risks underwritten, matured
\* or re-valued), before the firm decides on reinsurance.
ChangeValue(c, portfolio) ==
    /\ pc = "insurers"
    /\ ~asked
    /\ underwritten_risk_characterisation[c] # portfolio
    /\ underwritten_risk_characterisation' =
         [underwritten_risk_characterisation EXCEPT ![c] = portfolio]
    /\ UNCHANGED <<t, pc, k, rc_event_schedule, reinrisks, log, inflicted,
                   schedule_0, data, run, weights, asked, sim_vars, reinsurance_profile, request,
                   org_vars>>

\* Insurer i1 underwrites a risk of category c: a new contract without claim
\* and without reinsurance of its own, of value 1 and runtime 1, at the given
\* premium per period (in the units of market_premium).  The contracts of a category are the
\* risks underwritten_risk_characterisation counts.
UnderwriteRisk(c, insurancetype, premium) ==
    /\ pc = "insurers"
    /\ Cardinality({ i \in DOMAIN underwritten_contracts :
                       underwritten_contracts[i].category = c })
         < underwritten_risk_characterisation[c].number_risks
    /\ underwritten_contracts' =
         Append(underwritten_contracts,
                [category |-> c, current_claim |-> 0,
                 insurancetype |-> insurancetype, reincontract |-> FALSE,
                 value |-> 1, periodized_premium |-> premium, runtime |-> 1])
    /\ UNCHANGED <<t, pc, k, rc_event_schedule, reinrisks, log, inflicted,
                   schedule_0, data, run, weights, asked, sim_vars, firm_vars,
                   settlement, decision_vars>>

\* A reinsurer underwrites the proportional reinsurance of contract i, which
\* becomes the contract's reincontract.
Reinsure(i) ==
    /\ pc = "reinsurers"
    /\ i \in DOMAIN underwritten_contracts
    /\ ~underwritten_contracts[i].reincontract
    /\ underwritten_contracts' =
         [underwritten_contracts EXCEPT ![i].reincontract = TRUE]
    /\ UNCHANGED <<t, pc, k, rc_event_schedule, reinrisks, log, inflicted,
                   schedule_0, data, run, weights, asked, sim_vars, firm_vars,
                   settlement, decision_vars>>

\* Insurer i1 calls make_reinsurance_claims(t).
MakeReinsuranceClaims ==
    /\ pc = "insurers"
    /\ settlement.time < t \/ settlement.calls < MaxSettlements
    /\ LET r == make_reinsurance_claims(underwritten_contracts, reinsurance_profile)
       IN  /\ underwritten_contracts' = r.contracts
           /\ settlement' =
                [calls |-> IF settlement.time < t THEN 1 ELSE settlement.calls + 1,
                 time |-> t,
                 read |-> (IF settlement.time < t THEN 0 ELSE settlement.read)
                          + SumOver(riskcategories, r.claims_this_turn),
                 claims_this_turn |-> r.claims_this_turn,
                 linked |-> r.linked,
                 exploded |-> r.exploded]
    /\ UNCHANGED <<t, pc, k, rc_event_schedule, reinrisks, log, inflicted,
                   schedule_0, data, run, weights, asked, sim_vars, firm_vars,
                   decision_vars>>

\* Insurer i1 calls ask_reinsurance_non_proportional_by_category(t, c) with
\* purpose "newrisk": every risk is appended to the pool (append_reinrisks);
\* an IndexError or AssertionError ends the run.
AskReinsurance(c) ==
    /\ pc = "insurers"
    /\ ~asked
    /\ LET r == ask_reinsurance_non_proportional_by_category(
                    underwritten_risk_characterisation, reinsurance_profile, c)
       IN  /\ request' = r
           /\ reinrisks' = reinrisks \o r.risks
           /\ pc' = IF r.outcome \in {"IndexError", "AssertionError"}
                    THEN "aborted" ELSE pc
    /\ asked' = TRUE
    /\ UNCHANGED <<t, k, rc_event_schedule, log, inflicted, schedule_0, data, run, weights, sim_vars,
                   underwritten_risk_characterisation, reinsurance_profile,
                   org_vars>>

\* issue_cat_bond(time, categ_id): nothing happens when the category holds no
\* risk; else the ReinsuranceContract of the bond, covering the whole band of
\* the category, registers itself with the firm (add_reinsurance), and
\* self.simulation.receive_obligation(var_this_risk, self, time, "bond") is
\* called with one argument more than InsuranceSimulation.receive_obligation
\* takes: a TypeError, before any cash moves or the bond is registered.
issue_cat_bond(characterisation, profile, categ_id) ==
    LET risk == tranche_risk(<<deductible_value(characterisation[categ_id].total_value),
                               limit_value(characterisation[categ_id].total_value)>>,
                             categ_id, characterisation[categ_id])
        none == [outcome |-> "no_risks", call |-> "issue_cat_bond",
                 category |-> categ_id, risks |-> <<>>, profile |-> profile]
    IN  IF characterisation[categ_id].number_risks > 0
        THEN LET r == add_reinsurance(characterisation, profile,
                                      reinsurance_contract(risk))
             IN  [none EXCEPT !.outcome = IF r.error THEN "overlap"
                                          ELSE "TypeError",
                              !.risks = <<risk>>, !.profile = r.profile]
        ELSE none

\* issue_cat_bond: runtime=12
bond_runtime == 12

\* isleconfig: interest_rate, the fraction <<1, 100>>
interest_rate == <<1, 100>>

\* Amounts of the premium stream are kept in millionths, rounded down for a
\* lower and up for an upper bound of the floating-point value.
premium_scale == 1000000

\* x * (1 / (1 + interest_rate)) in millionths, rounded down or up
discount(x, up) ==
    LET num == x * interest_rate[2]
        den == interest_rate[2] + interest_rate[1]
    IN  IF up THEN (num + den - 1) \div den ELSE num \div den

\* sum([term * ((1 / (1 + self.interest_rate)) ** i) for i in range(n)]),
\* term being the summand of i = 0
RECURSIVE discounted_sum(_, _, _)
discounted_sum(term, n, up) ==
    IF n = 0 THEN 0 ELSE term + discounted_sum(discount(term, up), n - 1, up)

\* total_premium of issue_cat_bond, between low and high millionths
total_premium(per_period_premium, runtime) ==
    LET num == per_period_premium[1] * premium_scale
        den == per_period_premium[2]
    IN  [low |-> discounted_sum(num \div den, runtime, FALSE),
         high |-> discounted_sum((num + den - 1) \div den, runtime, TRUE)]

\* What issue_cat_bond(time, categ_id, per_value_per_period_premium) does
\* with money and agents once the contract of the bond exists, var_this_risk
\* being what riskmodel.evaluate returned: the amount of the obligation it
\* would pay is var_this_risk + total_premium and the contract carries a
\* periodic premium of 0, and the call of simulation.receive_obligation with
\* four arguments raises before self._pay and simulation.add_agents, so that
\* nothing is paid and no agent is registered.
cat_bond_funding(characterisation, categ_id, per_value_per_period_premium, var_this_risk) ==
    LET per_period_premium ==
            RMul(per_value_per_period_premium,
                 Rat(characterisation[categ_id].total_value, 1))
        stream == total_premium(per_period_premium, bond_runtime)
    IN  [var_this_risk |-> var_this_risk,
         per_period_premium |-> per_period_premium,
         runtime |-> bond_runtime,
         total_premium |-> stream,
         amount |-> [low |-> var_this_risk * premium_scale + stream.low,
                     high |-> var_this_risk * premium_scale + stream.high],
         per_value_reinsurance_premium |-> 0,
         paid |-> [low |-> 0, high |-> 0],
         received |-> [low |-> 0, high |-> 0],
         registered |-> 0]

\* No bond is funded: the category holds no risk, or its contract overlaps.
no_funding ==
    [var_this_risk |-> 0, per_period_premium |-> <<0, 1>>, runtime |-> bond_runtime,
     total_premium |-> [low |-> 0, high |-> 0],
     amount |-> [low |-> 0, high |-> 0], per_value_reinsurance_premium |-> 0,
     paid |-> [low |-> 0, high |-> 0], received |-> [low |-> 0, high |-> 0],
     registered |-> 0]

\* Insurer i1 calls issue_cat_bond(t, c, per_value_per_period_premium), the
\* risk model returning var_this_risk.
IssueCatBond(c, per_value_per_period_premium, var_this_risk) ==
    /\ pc = "insurers"
    /\ ~asked
    /\ LET r == issue_cat_bond(underwritten_risk_characterisation,
                               reinsurance_profile, c)
           funding == IF r.outcome = "TypeError"
                      THEN cat_bond_funding(underwritten_risk_characterisation, c,
                                            per_value_per_period_premium,
                                            var_this_risk)
                      ELSE no_funding
       IN  /\ request' = [outcome |-> r.outcome, call |-> r.call,
                          category |-> r.category, risks |-> r.risks,
                          time |-> t, funding |-> funding]
           /\ reinsurance_profile' = r.profile
           /\ pc' = IF r.outcome = "no_risks" THEN pc ELSE "aborted"
    /\ asked' = TRUE
    /\ UNCHANGED <<t, k, rc_event_schedule, reinrisks, log, inflicted, schedule_0, data, run, weights,
                   sim_vars, underwritten_risk_characterisation,
                   org_vars>>

\* Lists of intervals in increasing order that uncovered(categ_id) may return,
\* the empty list (nothing uncovered) among them.
UncoveredBounds == {0, 50, 150, 600, Infinity}
Intervals == { <<lo, hi>> : lo \in UncoveredBounds \ {Infinity}, hi \in UncoveredBounds }
UncoveredLists ==
    {<<>>}
    \cup { <<x>> : x \in { y \in Intervals : y[1] < y[2] } }
    \cup { z \in { <<x, y>> : x \in Intervals, y \in Intervals } :
             z[1][1] < z[1][2] /\ z[1][2] < z[2][1] /\ z[2][1] < z[2][2] }

\* Insurer i1 calls ask_reinsurance_non_proportional_by_category(t, c) and
\* reinsurance_profile.uncovered(c) returns the list tranches_0.
AskReinsuranceOf(c, tranches_0) ==
    /\ pc = "insurers"
    /\ ~asked
    /\ LET r == request_tranches(tranches_0, underwritten_risk_characterisation,
                                 reinsurance_profile, c)
       IN  /\ request' = r
           /\ reinrisks' = reinrisks \o r.risks
           /\ pc' = IF r.outcome \in {"IndexError", "AssertionError"}
                    THEN "aborted" ELSE pc
    /\ asked' = TRUE
    /\ UNCHANGED <<t, k, rc_event_schedule, log, inflicted, schedule_0, data, run, weights, sim_vars,
                   underwritten_risk_characterisation, reinsurance_profile,
                   org_vars>>

\* get_average_premium(categ_id): premium payments over total value of the
\* contracts of the category, 0 when it holds none.
RECURSIVE weighted_premium_sum(_, _)
weighted_premium_sum(contracts, categ_id) ==
    IF contracts = <<>> THEN 0
    ELSE (IF Head(contracts).category = categ_id
          THEN Head(contracts).periodized_premium * Head(contracts).runtime
          ELSE 0)
         + weighted_premium_sum(Tail(contracts), categ_id)

RECURSIVE total_weight(_, _)
total_weight(contracts, categ_id) ==
    IF contracts = <<>> THEN 0
    ELSE (IF Head(contracts).category = categ_id THEN Head(contracts).value ELSE 0)
         + total_weight(Tail(contracts), categ_id)

get_average_premium(contracts, categ_id) ==
    IF total_weight(contracts, categ_id) = 0 THEN <<0, 1>>
    ELSE Rat(weighted_premium_sum(contracts, categ_id),
             total_weight(contracts, categ_id))

\* increase_capacity_by_category issuing the cat bond at equal prices too.
increase_capacity_by_category_bond_at_equal(firm, categ_id, reinsurance_price, cat_bond_price, force) ==
    LET none == [category |-> categ_id, force |-> force, acted |-> FALSE,
                 kind |-> "none", outcome |-> "none", risks |-> <<>>,
                 profile |-> firm.profile, aborted |-> FALSE]
    IN  IF /\ ~force
           /\ ~RLess(get_average_premium(firm.contracts, categ_id),
                     <<firm.market_premium, 1>>)
        THEN none
        ELSE IF reinsurance_price >= cat_bond_price
        THEN LET r == issue_cat_bond(firm.characterisation, firm.profile, categ_id)
             IN  [none EXCEPT !.acted = TRUE, !.kind = "cat_bond",
                              !.outcome = r.outcome, !.profile = r.profile,
                              !.aborted = r.outcome # "no_risks"]
        ELSE LET r == ask_reinsurance_non_proportional_by_category(
                          firm.characterisation, firm.profile, categ_id)
             IN  [none EXCEPT !.acted = TRUE, !.kind = "reinsurance",
                              !.outcome = r.outcome, !.risks = r.risks,
                              !.aborted = r.outcome \in {"IndexError",
                                                         "AssertionError"}]

\* increase_capacity_by_category(time, categ_id, reinsurance_price,
\* cat_bond_price, force): firm is what the call reads of the firm and the
\* market.  acted is the value returned; kind and outcome tell which call was
\* made and how it ended; aborted, that it raised an error.
increase_capacity_by_category(firm, categ_id, reinsurance_price, cat_bond_price, force) ==
    LET none == [category |-> categ_id, force |-> force, acted |-> FALSE,
                 kind |-> "none", outcome |-> "none", risks |-> <<>>,
                 profile |-> firm.profile, aborted |-> FALSE]
    IN  IF /\ ~force
           /\ ~RLess(get_average_premium(firm.contracts, categ_id),
                     <<firm.market_premium, 1>>)
        THEN none
        ELSE IF reinsurance_price > cat_bond_price
        THEN LET r == issue_cat_bond(firm.characterisation, firm.profile, categ_id)
             IN  [none EXCEPT !.acted = TRUE, !.kind = "cat_bond",
                              !.outcome = r.outcome, !.profile = r.profile,
                              !.aborted = r.outcome # "no_risks"]
        ELSE LET r == ask_reinsurance_non_proportional_by_category(
                          firm.characterisation, firm.profile, categ_id)
             IN  [none EXCEPT !.acted = TRUE, !.kind = "reinsurance",
                              !.outcome = r.outcome, !.risks = r.risks,
                              !.aborted = r.outcome \in {"IndexError",
                                                         "AssertionError"}]

\* The while loop of increase_capacity over categ_ids, popped from its end:
\* the calls of increase_capacity_by_category in order.  A call that is not
\* forced and acts empties categ_ids; an error ends the run.
RECURSIVE increase_capacity_loop(_, _, _, _, _)
increase_capacity_loop(firm, categ_ids, reinsurance_price, cat_bond_price, force) ==
    IF categ_ids = <<>> THEN <<>>
    ELSE LET call == increase_capacity_by_category(
                         firm, categ_ids[Len(categ_ids)], reinsurance_price,
                         cat_bond_price, force)
         IN  <<call>> \o
             (IF call.aborted \/ (~force /\ call.acted) THEN <<>>
              ELSE increase_capacity_loop(
                       firm, SubSeq(categ_ids, 1, Len(categ_ids) - 1),
                       reinsurance_price, cat_bond_price, force))

\* increase_capacity(time, max_var): the capacity it returns and the calls of
\* increase_capacity_by_category it makes.  Nothing a call that returns
\* changes is read by get_capacity, so that the capacity, and with it force,
\* is the same at every category.
increase_capacity(firm, categ_ids, reinsurance_price, cat_bond_price, max_var) ==
    LET capacity == get_capacity(firm.cash,
                                 get_reinsurance_var_estimate(
                                     firm.characterisation, firm.profile, max_var),
                                 max_var)
    IN  [capacity |-> capacity,
         calls |-> IF reinsurance_price = Infinity /\ cat_bond_price = Infinity
                   THEN <<>>
                   ELSE increase_capacity_loop(firm, categ_ids, reinsurance_price,
                                               cat_bond_price,
                                               ~RLess(firm.capacity_target, capacity))]

RECURSIVE risks_of(_)
risks_of(calls) ==
    IF calls = <<>> THEN <<>> ELSE Head(calls).risks \o risks_of(Tail(calls))

\* What insurer i1 and the market are when a capacity decision is taken.
Firm ==
    [cash |-> cash[insurancefirms[1]],
     capacity_target |-> capacity_target,
     characterisation |-> underwritten_risk_characterisation,
     profile |-> reinsurance_profile,
     contracts |-> underwritten_contracts,
     market_premium |-> market_premium]

\* The max VaR the risk model quotes, the profits of a period, the prices of
\* reinsurance and of a cat bond the market quotes together, and the premiums
\* per period of the contracts insurer i1 underwrites.
MaxVars == {0, 2, 4, 8}
Profits == {0 - 5, 0, 5}
PriceQuotes == { <<1, 2>>, <<2, 1>>, <<2, 2>>, <<Infinity, Infinity>> }
Premiums == {800, 1200}

\* Insurer i1 calls adjust_capacity_target(max_var).
AdjustCapacityTarget(max_var) ==
    /\ pc = "insurers"
    /\ called_at["adjust_capacity_target"] < t
    /\ LET estimate == get_reinsurance_var_estimate(
                           underwritten_risk_characterisation,
                           reinsurance_profile, max_var)
       IN  /\ capacity_target' = adjust_capacity_target(
                                     agent_parameters, capacity_target,
                                     estimate, max_var)
           /\ decision' = [call |-> "adjust_capacity_target", firm |-> Firm,
                           max_var |-> max_var, estimate |-> estimate]
    /\ called_at' = [called_at EXCEPT !["adjust_capacity_target"] = t]
    /\ UNCHANGED <<t, pc, k, rc_event_schedule, reinrisks, log, inflicted,
                   schedule_0, data, run, weights, asked, sim_vars, firm_vars, claim_vars,
                   per_period_dividend, agent_parameters>>

\* Insurer i1 calls adjust_dividends(t, actual_capacity).
AdjustDividends(profits, actual_capacity) ==
    /\ pc = "insurers"
    /\ called_at["adjust_dividends"] < t
    /\ per_period_dividend' = adjust_dividends(agent_parameters, capacity_target,
                                               profits, actual_capacity)
    /\ decision' = [call |-> "adjust_dividends", firm |-> Firm,
                    profits |-> profits, actual_capacity |-> actual_capacity]
    /\ called_at' = [called_at EXCEPT !["adjust_dividends"] = t]
    /\ UNCHANGED <<t, pc, k, rc_event_schedule, reinrisks, log, inflicted,
                   schedule_0, data, run, weights, asked, sim_vars, firm_vars, claim_vars,
                   capacity_target, agent_parameters>>

\* Insurer i1 calls increase_capacity(t, max_var) with the prices quoted and
\* the order the categories are shuffled into: the risks requested join the
\* pool, and an error in a request or a cat bond issue ends the run.
IncreaseCapacity(max_var, reinsurance_price, cat_bond_price, categ_ids) ==
    /\ pc = "insurers"
    /\ called_at["increase_capacity"] < t
    /\ LET r == increase_capacity(Firm, categ_ids, reinsurance_price,
                                  cat_bond_price, max_var)
           last == r.calls[Len(r.calls)]
           aborted == r.calls # <<>> /\ last.aborted
       IN  IF run.reinsurance_type # "non-proportional"
           THEN /\ pc' = "aborted"
                /\ decision' = [call |-> "AssertionError"]
                /\ UNCHANGED <<reinrisks, reinsurance_profile>>
           ELSE
           /\ reinrisks' = reinrisks \o risks_of(r.calls)
           /\ reinsurance_profile' = IF aborted THEN last.profile
                                     ELSE reinsurance_profile
           /\ pc' = IF aborted THEN "aborted" ELSE pc
           /\ decision' = [call |-> "increase_capacity", firm |-> Firm,
                           max_var |-> max_var,
                           reinsurance_price |-> reinsurance_price,
                           cat_bond_price |-> cat_bond_price,
                           estimate |-> get_reinsurance_var_estimate(
                                            underwritten_risk_characterisation,
                                            reinsurance_profile, max_var),
                           capacity |-> r.capacity,
                           calls |-> [i \in DOMAIN r.calls |->
                                        [category |-> r.calls[i].category,
                                         force |-> r.calls[i].force,
                                         acted |-> r.calls[i].acted,
                                         kind |-> r.calls[i].kind,
                                         outcome |-> r.calls[i].outcome]]]
    /\ called_at' = [called_at EXCEPT !["increase_capacity"] = t]
    /\ UNCHANGED <<t, k, rc_event_schedule, log, inflicted, schedule_0, data, run, weights, asked,
                   sim_vars, underwritten_risk_characterisation, request,
                   claim_vars, capacity_target, per_period_dividend,
                   agent_parameters>>

\* reinsurance_limit of the agent parameters, the fraction <<1, 10>>
reinsurance_limit == <<1, 10>>

\* ask_reinsurance_proportional(): the risks published, one per contract
\* without reinsurance, last contract first, as long as the counter is below
\* len(nonreinsured) - (1 - reinsurance_limit) * len(underwritten_contracts).
ask_reinsurance_proportional(contracts) ==
    LET nonreinsured == SelectSeq([i \in DOMAIN contracts |-> Len(contracts) + 1 - i],
                                  LAMBDA i : ~contracts[i].reincontract)
        \* the tests in units of 1 / reinsurance_limit[2]
        kept == (reinsurance_limit[2] - reinsurance_limit[1]) * Len(contracts)
        limitrein == reinsurance_limit[2] * Len(nonreinsured) - kept
    IN  IF reinsurance_limit[2] * Len(nonreinsured) >= kept
        THEN [n \in { m \in DOMAIN nonreinsured :
                        reinsurance_limit[2] * (m - 1) < limitrein } |->
                [category |-> contracts[nonreinsured[n]].category,
                 value |-> contracts[nonreinsured[n]].value,
                 reinsurance_share |-> 1,
                 contract |-> nonreinsured[n]]]
        ELSE <<>>

\* ask_reinsurance_non_proportional(time): the request of every category in
\* turn, up to the first that raises; the risks published and the last request.
RECURSIVE ask_reinsurance_non_proportional(_, _, _, _)
ask_reinsurance_non_proportional(characterisation, profile, categories, risks) ==
    LET r == ask_reinsurance_non_proportional_by_category(
                 characterisation, profile, Head(categories))
    IN  IF r.outcome \in {"IndexError", "AssertionError"} \/ Len(categories) = 1
        THEN [request |-> r, risks |-> risks \o r.risks]
        ELSE ask_reinsurance_non_proportional(characterisation, profile,
                                              Tail(categories), risks \o r.risks)

\* Insurer i1 calls ask_reinsurance(t): the request of the configured
\* reinsurance type, and ValueError for a type that is neither of the two.
AskReinsuranceOfType ==
    /\ pc = "insurers"
    /\ ~asked
    /\ CASE run.reinsurance_type = "proportional" ->
             /\ reinrisks' = reinrisks \o
                               ask_reinsurance_proportional(underwritten_contracts)
             /\ request' = [outcome |-> "proportional", call |-> "ask_reinsurance"]
             /\ pc' = pc
         [] run.reinsurance_type = "non-proportional" ->
             LET r == ask_reinsurance_non_proportional(
                          underwritten_risk_characterisation, reinsurance_profile,
                          CategorySeq, <<>>)
             IN  /\ reinrisks' = reinrisks \o r.risks
                 /\ request' = r.request
                 /\ pc' = IF r.request.outcome \in {"IndexError", "AssertionError"}
                          THEN "aborted" ELSE pc
         [] OTHER ->
             /\ reinrisks' = reinrisks
             /\ request' = [outcome |-> "ValueError", call |-> "ask_reinsurance"]
             /\ pc' = "aborted"
    /\ asked' = TRUE
    /\ UNCHANGED <<t, k, rc_event_schedule, log, inflicted, schedule_0, data, run,
                   weights, sim_vars, underwritten_risk_characterisation,
                   reinsurance_profile, org_vars>>

\* Reinsurer r1 is sent the first risk of the pool (solicit_reinsurance_
\* requests) and underwrites it: the new ReinsuranceContract registers itself
\* with the ceding insurer (add_reinsurance).
UnderwriteReinrisk ==
    /\ pc = "reinsurers"
    /\ reinrisks # <<>>
    /\ LET r == add_reinsurance(underwritten_risk_characterisation,
                                reinsurance_profile,
                                reinsurance_contract(Head(reinrisks)))
       IN  /\ reinsurance_profile' = r.profile
           /\ pc' = IF r.error THEN "aborted" ELSE pc
    /\ reinrisks' = Tail(reinrisks)
    /\ UNCHANGED <<t, k, rc_event_schedule, log, inflicted, schedule_0, data, run, weights, asked,
                   sim_vars, underwritten_risk_characterisation, request,
                   org_vars>>

\* Reinsurer r1 is sent the first risk of the pool, does not accept it and
\* gives it back (return_reinrisks): the risk joins the end of the pool.
ReturnReinrisk ==
    /\ pc = "reinsurers"
    /\ reinrisks # <<>>
    /\ reinrisks' = Tail(reinrisks) \o <<Head(reinrisks)>>
    /\ UNCHANGED <<t, pc, k, rc_event_schedule, log, inflicted, schedule_0, data, run, weights, asked,
                   sim_vars, firm_vars, org_vars>>

\* A reinsurance contract of r1 expires without renewal: delete_reinsurance.
ExpireReinsurance(contract) ==
    /\ pc = "reinsurers"
    /\ contract \in Contracts
    /\ reinsurance_profile' =
         delete_reinsurance(underwritten_risk_characterisation,
                            reinsurance_profile, contract)
    /\ UNCHANGED <<t, pc, k, rc_event_schedule, reinrisks, log, inflicted,
                   schedule_0, data, run, weights, asked, sim_vars,
                   underwritten_risk_characterisation, request,
                   org_vars>>

\* A reinsurance contract of r1 expires and is rolled over: the insurer's
\* refresh_reinrisk gives the renewed risk, the old contract is deleted and
\* the contract of the renewed risk, if there is one, is added.
RollOver(contract) ==
    /\ pc = "reinsurers"
    /\ contract \in Contracts
    /\ LET new_risk == refresh_reinrisk(underwritten_risk_characterisation, contract)
           released == delete_reinsurance(underwritten_risk_characterisation,
                                          reinsurance_profile, contract)
           r == IF new_risk = <<>> THEN [error |-> FALSE, profile |-> released]
                ELSE add_reinsurance(underwritten_risk_characterisation, released,
                                     reinsurance_contract(new_risk[1]))
       IN  /\ reinsurance_profile' = r.profile
           /\ pc' = IF r.error THEN "aborted" ELSE pc
           /\ request' = [outcome |-> "rollover", category |-> contract.category,
                          old_contract |-> contract, risks |-> new_risk]
    /\ UNCHANGED <<t, k, rc_event_schedule, reinrisks, log, inflicted, schedule_0, data, run, weights,
                   asked, sim_vars, underwritten_risk_characterisation,
                   org_vars>>

\* The amounts of the obligations and receipts of the model.
Amounts == {1, 2}
\* An obligation is due in the tick it is registered in, or two ticks later.
DueDelays == {0, 2}

\* The tick loop alone: firms that call nothing on the simulation.
NextIterate ==
    \/ AdjustMarketPremium
    \/ EffectPayments
    \/ Perils
    \/ ShuffleRisks
    \/ ResetReinsuranceWeights
    \/ ReinsurerIterate
    \/ ClearReinrisks
    \/ ResetInsuranceWeights
    \/ InsurerIterate

Next ==
    \/ NextIterate
    \/ \E amount \in Amounts, recipient \in Recipients, delay \in DueDelays :
         ReceiveObligation(amount, recipient, t + delay)
    \/ \E amount \in Amounts : Receive(amount)

\* The tick loop with insurer i1 requesting reinsurance and reinsurer r1
\* underwriting, expiring and renewing it.
NextReinsurance ==
    \/ NextIterate
    \/ \E c \in riskcategories, portfolio \in Portfolios : ChangeValue(c, portfolio)
    \/ \E c \in riskcategories : AskReinsurance(c)
    \/ \E c \in riskcategories : IssueCatBond(c, <<0, 1>>, 0)
    \/ UnderwriteReinrisk
    \/ ReturnReinrisk
    \/ \E contract \in Contracts : ExpireReinsurance(contract)
    \/ \E contract \in Contracts : RollOver(contract)

\* The tick loop with insurer i1 requesting reinsurance for whatever list of
\* uncovered intervals its profile returns.
NextTranches ==
    \/ NextIterate
    \/ \E c \in riskcategories, portfolio \in Portfolios : ChangeValue(c, portfolio)
    \/ \E c \in riskcategories, tranches_0 \in UncoveredLists :
         AskReinsuranceOf(c, tranches_0)

\* The tick loop with insurer i1 underwriting risks, placing reinsurance and
\* settling the claims of the tick.
NextClaims ==
    \/ NextIterate
    \/ \E c \in ReinsuredCategories : ChangeValue(c, BookOfClaims)
    \/ \E c \in ReinsuredCategories : AskReinsurance(c)
    \/ UnderwriteReinrisk
    \/ \E c \in riskcategories,
          insurancetype \in {"proportional", "excess-of-loss"} :
         UnderwriteRisk(c, insurancetype, market_premium)
    \/ \E i \in DOMAIN underwritten_contracts : Reinsure(i)
    \/ MakeReinsuranceClaims

\* The cash insurer i1 may be set up with.
CashLevels == {0, 4, 6}

\* The tick loop with insurer i1 deciding on its capacity target and its
\* dividends.
NextTarget ==
    \/ NextIterate
    \/ \E max_var \in MaxVars : AdjustCapacityTarget(max_var)
    \/ \E profits \in Profits,
          actual_capacity \in {capacity_target} \cup
                              { <<c, 1>> : c \in CashLevels } :
         AdjustDividends(profits, actual_capacity)

\* The tick loop with insurer i1 deciding on further reinsurance while
\* reinsurer r1 underwrites what it requests.
NextCoverage ==
    \/ NextIterate
    \/ \E c \in ReinsuredCategories : ChangeValue(c, BookOfCoverage)
    \/ UnderwriteReinrisk
    \/ \E max_var \in MaxVars \cap CashLevels, quote \in PriceQuotes,
          categ_ids \in Shuffles(<<0, 1>>) :
         IncreaseCapacity(max_var, quote[1], quote[2], categ_ids)

\* The tick loop with insurer i1 deciding on further reinsurance while it
\* holds risks in every category and contracts at different premiums.
NextRequests ==
    \/ NextIterate
    \/ \E c \in riskcategories : ChangeValue(c, BookOfCoverage)
    \/ \E c \in ReinsuredCategories, premium \in Premiums :
         UnderwriteRisk(c, "proportional", premium)
    \/ \E max_var \in {4}, quote \in {<<1, 2>>, <<2, 1>>},
          categ_ids \in Shuffles(<<0, 1>>) :
         IncreaseCapacity(max_var, quote[1], quote[2], categ_ids)

\* The tick loop with the firms soliciting risks, and payments to them.
NextWeights ==
    \/ NextIterate
    \/ \E i \in DOMAIN insurancefirms : SolicitInsuranceRequests(i)
    \/ \E i \in DOMAIN reinsurancefirms : SolicitReinsuranceRequests(i)
    \/ \E i \in DOMAIN insurancefirms, n \in 1..no_risks : ReturnRisks(i, n)
    \/ \E amount \in Amounts, recipient \in Firms :
         ReceiveObligation(amount, recipient, t)

\* The tick loop with the insurers soliciting and returning risks, and
\* payments to them.
NextPool ==
    \/ NextIterate
    \/ \E i \in DOMAIN insurancefirms : SolicitInsuranceRequests(i)
    \/ \E i \in DOMAIN insurancefirms, n \in 1..no_risks : ReturnRisks(i, n)
    \/ \E recipient \in SeqRange(insurancefirms) :
         ReceiveObligation(1, recipient, t)

\* The tick loop with insurer i1 underwriting risks of every category.
NextPerils ==
    \/ NextIterate
    \/ \E c \in riskcategories : ChangeValue(c, BookOfClaims)
    \/ \E c \in riskcategories :
         UnderwriteRisk(c, "excess-of-loss", market_premium)

\* resume.main(), run while the original run is between two ticks (it was
\* interrupted there) or has ended: the dictionary of data/simulation_save.pkl
\* is loaded and the simulation is the one it holds; reading the keys
\* "event_schedule" and "event_damage" raises KeyError when the dictionary
\* lacks them; otherwise the loop iterates from t = d["time"] on.
Resume ==
    /\ pc \in {iterate_order[1], "finished"}
    /\ ~run.resumed
    /\ data.simulation_save # <<>>
    /\ LET d == data.simulation_save[1]
       IN  /\ money_supply' = d.simulation.money_supply
           /\ obligations' = d.simulation.obligations
           /\ cash' = d.simulation.cash
           /\ market_premium' = d.simulation.market_premium
           /\ rc_event_schedule' = d.simulation.rc_event_schedule
           /\ reinrisks' = d.simulation.reinrisks
           /\ weights' = d.simulation.weights
           /\ underwritten_risk_characterisation' =
                d.simulation.underwritten_risk_characterisation
           /\ reinsurance_profile' = d.simulation.reinsurance_profile
           /\ underwritten_contracts' = d.simulation.underwritten_contracts
           /\ capacity_target' = d.simulation.capacity_target
           /\ per_period_dividend' = d.simulation.per_period_dividend
           /\ agent_parameters' = d.simulation.agent_parameters
           /\ called_at' = d.simulation.called_at
           /\ t' = d.time
           /\ pc' = IF {"event_schedule", "event_damage"} \subseteq DOMAIN d
                    THEN (IF d.time < max_time THEN iterate_order[1] ELSE "finished")
                    ELSE "aborted"
    /\ k' = 1
    /\ asked' = FALSE
    /\ run' = [run EXCEPT !.resumed = TRUE]
    /\ UNCHANGED <<log, inflicted, paid, receipts, request, settlement, decision,
                   schedule_0, data>>

\* The values of main's parameter save_iter: the ticks of the run, and the
\* default of the command line.
SaveIters == 0..(max_time - 1) \cup {default_save_iter}

\* The tick loop of start.main, and resume.main on the snapshot it saved.
NextResume ==
    \/ NextIterate
    \/ Resume

\* The replication ids a run may be given, None among them, the random
\* states np.random.get_state() may return after the schedule was drawn, and
\* the schedules setup_risk_categories may draw (one event per category at
\* tick 1, or none).
ReplicIDs == {None, 0, 1, 2}
RandomStates == {"MT19937 a", "MT19937 b"}
DrawnSchedules ==
    { [c \in riskcategories |-> event_schedule(0, g)] :
        g \in { <<1, max_time>>, <<max_time>> } }

\* line number replic_ID of a file, lines being counted from 0
\* (for i, line in enumerate(rfile): if i == self.replic_ID)
line_of(lines, replic_ID) ==
    IF replic_ID + 1 \in DOMAIN lines THEN <<lines[replic_ID + 1]>> ELSE <<>>

\* setup_risk_categories_caller() in the constructor of a run with the given
\* replic_ID: a replicating run restores schedule and random state from the
\* line of its id (AssertionError or NameError when there is none); an
\* original run with an id draws its schedule and appends it and the random
\* state to the two files; a run without id only draws its schedule.  str()
\* and eval() of a list of lists of integers, and of the state tuple with the
\* replacements of lines 384, give back the value written, so a line holds the
\* value itself.
SetupRiskCategoriesCaller(replic_ID, replicating, schedule, randomseed) ==
    /\ t = 0
    /\ IF replic_ID # None /\ replicating
       THEN LET found_schedule ==
                    line_of(data.replication_rc_event_schedule, replic_ID)
                found_randomseed ==
                    line_of(data.replication_randomseed, replic_ID)
                found == found_schedule # <<>> /\ found_randomseed # <<>>
            IN  /\ rc_event_schedule' =
                     IF found_schedule # <<>> THEN found_schedule[1]
                     ELSE [c \in riskcategories |-> <<>>]
                /\ pc' = IF found THEN iterate_order[1] ELSE "aborted"
                /\ run' = [run EXCEPT !.restored =
                             [replic_ID |-> replic_ID, found |-> found,
                              schedule |-> found_schedule,
                              randomseed |-> found_randomseed,
                              written |-> run.written]]
                /\ data' = data
       ELSE /\ rc_event_schedule' = schedule
            /\ pc' = iterate_order[1]
            /\ IF replic_ID # None
               THEN /\ Len(data.replication_rc_event_schedule) < MaxRecords
                    /\ Len(data.replication_randomseed) < MaxRecords
                    /\ data' =
                         [data EXCEPT
                            !.replication_randomseed = Append(@, randomseed),
                            !.replication_rc_event_schedule = Append(@, schedule)]
                    /\ run' = [run EXCEPT !.written =
                                 Append(@, [replic_ID |-> replic_ID,
                                            schedule |-> schedule,
                                            randomseed |-> randomseed])]
               ELSE UNCHANGED <<data, run>>
    /\ schedule_0' = rc_event_schedule'
    /\ UNCHANGED <<t, k, reinrisks, log, inflicted, weights, asked, sim_vars,
                   firm_vars, org_vars>>

\* Runs are constructed one after the other on the same directory data/.
NextReplication ==
    \E replic_ID \in ReplicIDs, replicating \in BOOLEAN,
       schedule \in DrawnSchedules, randomseed \in RandomStates :
      SetupRiskCategoriesCaller(replic_ID, replicating, schedule, randomseed)

\* The values simulation_parameters["reinsurance_type"] may be configured
\* with: the two known types and another one.
ReinsuranceTypes == {"proportional", "non-proportional", "excess-of-loss"}

\* The tick loop with insurer i1 asking for reinsurance of the configured type
\* and increasing its capacity.
NextConfigured ==
    \/ NextIterate
    \/ \E c \in ReinsuredCategories : ChangeValue(c, BookOfCoverage)
    \/ AskReinsuranceOfType
    \/ \E quote \in PriceQuotes, categ_ids \in Shuffles(CategorySeq) :
         IncreaseCapacity(initial_cash, quote[1], quote[2], categ_ids)

\* What issue_cat_bond is called with: the premium per value and period, and
\* the value at risk the risk model returns.
BondPremiums == { <<0, 1>>, <<1, 100>> }
BondVars == {50, 100}

\* The tick loop with insurer i1 issuing cat bonds on its book.
NextCatBond ==
    \/ NextIterate
    \/ \E c \in riskcategories, portfolio \in Portfolios : ChangeValue(c, portfolio)
    \/ \E c \in riskcategories, premium \in BondPremiums, var \in BondVars :
         IssueCatBond(c, premium, var)

\* Every configuration of thresholds and factors of insurer i1.
InitTarget == InitOf({<<1, max_time>>}, {initial_cash}, Configurations)

\* Every cash level of insurer i1.
InitCoverage == InitOf({<<1, max_time>>}, CashLevels, {default_parameters})

\* Every schedule setup_risk_categories can set up.
InitSchedule == InitWith(GapSeqs)

\* The cash of insurer i1 when the run starts, adjust_market_premium(capital)
\* being called with it in the first tick: in debt, without cash, and with
\* cash up to the level where the lower price limit binds.
CapitalLevels == {0 - 2, 0 - 1, 0, 1, 3, 4, 6}
InitPremium == InitOf({<<1, max_time>>}, CapitalLevels, {default_parameters})

\* The state after construction, for every save_iter and every event schedule.
InitResume ==
    /\ data = files_with(<<>>)
    /\ run \in { run_with(save_iter) : save_iter \in SaveIters }
    /\ InitState(GapSeqs, {initial_cash}, {default_parameters})

\* What the replication files may hold when the first run is constructed:
\* nothing, or a line of an earlier session.
EarlierLines ==
    { <<>>,
      <<[schedule |-> [c \in riskcategories |-> <<>>], randomseed |-> "MT19937 a"]>> }

\* The state after construction, for every content of the replication files.
InitReplication ==
    /\ data \in { files_with(lines) : lines \in EarlierLines }
    /\ run = run_with(default_save_iter)
    /\ InitState({<<1, max_time>>}, {initial_cash}, {default_parameters})

\* The state after construction, for every configured reinsurance type.
InitConfigured ==
    /\ data = files_with(<<>>)
    /\ run \in { [run_with(default_save_iter) EXCEPT !.reinsurance_type = type] :
                   type \in ReinsuranceTypes }
    /\ InitState({<<1, max_time>>}, {initial_cash}, {default_parameters})

\* Every category's schedule is [1]: a first gap of 1, then one of max_time.
Init == InitWith({<<1, max_time>>})

\* The simulation with its ledger, one event per category.
Spec == Init /\ [][Next]_vars

\* The tick loop over every event schedule.
SpecSchedule == InitSchedule /\ [][NextIterate]_vars

\* The tick loop with the reinsurance of insurer i1, one event per category.
SpecReinsurance == Init /\ [][NextReinsurance]_vars

\* The tranche request over every list of uncovered intervals.
SpecTranches == Init /\ [][NextTranches]_vars

\* The tick loop with the claims of insurer i1 and their settlement.
SpecClaims == Init /\ [][NextClaims]_vars

\* The tick loop with the decisions on capacity target and dividends.
SpecTarget == InitTarget /\ [][NextTarget]_vars

\* The tick loop with the decisions on further reinsurance and its placing.
SpecCoverage == InitCoverage /\ [][NextCoverage]_vars

\* The tick loop with the decisions on further reinsurance in every category.
SpecRequests == InitCoverage /\ [][NextRequests]_vars

\* The tick loop over every level of aggregate capital.
SpecPremium == InitPremium /\ [][NextIterate]_vars

\* The tick loop with the distribution of risks to the firms.
SpecWeights == InitCoverage /\ [][NextWeights]_vars
SpecPool == InitCoverage /\ [][NextPool]_vars

\* The tick loop with perils on the contracts of insurer i1, over every event
\* schedule.
SpecPerils == InitSchedule /\ [][NextPerils]_vars

\* A run of start.main that saves its simulation, and its resumption.
SpecResume == InitResume /\ [][NextResume]_vars

\* Original and replicating runs constructed on the same replication files.
SpecReplication == InitReplication /\ [][NextReplication]_vars

\* The simulation under every configured reinsurance type.
SpecConfigured == InitConfigured /\ [][NextConfigured]_vars

\* The tick loop with the cat bonds of insurer i1.
SpecCatBond == Init /\ [][NextCatBond]_vars

\* ================================================================= properties

\* ------------------------------------------------------------------------ C1

\* C1: in every reachable state money_supply >= 0: a payment the money supply
\* cannot cover aborts the run and is not applied.
C1_MoneySupplyNonNegative == money_supply >= 0

\* ------------------------------------------------------------------------ C2

RECURSIVE SumAmounts(_)
SumAmounts(items) ==
    IF items = <<>> THEN 0 ELSE Head(items).amount + SumAmounts(Tail(items))

\* The sum of all firm cash plus the sum of all pending obligation amounts.
CashAndPending ==
    SumCash(cash, insurancefirms) + SumCash(cash, reinsurancefirms)
      + SumAmounts(obligations)

\* iterate(t - 1) has returned: the tick t - 1 is over.
TickEnd == t > 0 /\ pc \in {"adjust_market_premium", "finished"}

NonFirmDue(time) ==
    SumAmounts(SelectSeq(obligations,
                         LAMBDA o : o.due_time <= time /\ o.recipient \notin Firms))

LastSettled ==
    IF pc \in {"adjust_market_premium", "effect_payments", "finished"}
    THEN t - 1 ELSE t

\* An obligation is registered while a firm iterates in tick registered, after
\* that tick's effect_payments: the first effect_payments(u) with
\* u >= due_time that runs after it is that of the later of registered + 1 and
\* due_time.
FirstSettlement(h) ==
    IF h.registered + 1 > h.due_time THEN h.registered + 1 ELSE h.due_time

\* The amounts of the obligations paid so far to recipient f.
RECURSIVE PaidTo(_, _)
PaidTo(history, f) ==
    IF history = <<>> THEN 0
    ELSE (IF Head(history).recipient = f
          THEN Len(Head(history).times) * Head(history).amount ELSE 0)
         + PaidTo(Tail(history), f)

\* C3: every registered obligation is paid to its recipient exactly once, by
\* the first effect_payments(u) with u >= due_time that runs after its
\* registration, and is removed by that call; until then, and through every
\* effect_payments(u) with due_time > u, it is pending and unchanged.
C3_PaidExactlyOnceWhenDue ==
    /\ \A i \in DOMAIN paid :
         IF FirstSettlement(paid[i]) <= LastSettled
         THEN /\ paid[i].times = <<FirstSettlement(paid[i])>>
              /\ \A j \in DOMAIN obligations : obligations[j].id # i
         ELSE /\ paid[i].times = <<>>
              /\ Cardinality({ j \in DOMAIN obligations : obligations[j].id = i }) = 1
              /\ \A j \in DOMAIN obligations :
                   obligations[j].id = i =>
                     /\ obligations[j].amount = paid[i].amount
                     /\ obligations[j].recipient = paid[i].recipient
                     /\ obligations[j].due_time = paid[i].due_time
    /\ \A f \in Firms : cash[f] = initial_cash + PaidTo(paid, f)

\* effect_payments(t) has just paid an obligation registered in an earlier
\* tick and due at t, and has left one that is due later pending.
C3_Witness ==
    /\ pc = "perils"
    /\ \E i, j \in DOMAIN paid :
         /\ paid[i].due_time = t /\ paid[i].registered < t /\ paid[i].times = <<t>>
         /\ paid[j].due_time > t /\ paid[j].times = <<>>
         /\ \E n \in DOMAIN obligations : obligations[n].id = j

\* ------------------------------------------------------------------------ C4

\* The loop over the categories of iterate(t) is over (or the run is).
PerilsDone == pc \notin {"adjust_market_premium", "effect_payments", "perils"}

\* The ticks category c has fired at.
FiredAt(c) == { u \in 0..max_time : <<c, u>> \in inflicted }

\* The entries of c's event schedule as set up.
Scheduled(c) == { schedule_0[c][i] : i \in DOMAIN schedule_0[c] }

\* C4: category c fires at tick u if and only if u is an entry of c's event
\* schedule, every scheduled time fires exactly once, and after iterate(t) the
\* head of every non-empty schedule is strictly greater than t.
C4_FiresExactlyAtScheduledTimes ==
    \A c \in riskcategories :
      /\ FiredAt(c) = { u \in Scheduled(c) : u < t \/ (u = t /\ PerilsDone) }
      /\ Len(schedule_0[c]) - Len(rc_event_schedule[c]) = Cardinality(FiredAt(c))
      /\ (PerilsDone /\ Len(rc_event_schedule[c]) > 0) => rc_event_schedule[c][1] > t

\* ------------------------------------------------------------------------ C5

\* Some category's schedule head is strictly less than the tick iterate runs for.
StaleHead ==
    /\ pc # "finished"
    /\ \E c \in riskcategories :
         Len(rc_event_schedule[c]) > 0 /\ rc_event_schedule[c][1] < t

\* C5: if at iterate(t) the head of some category's schedule is strictly less
\* than t the run fails at the loop over the categories: iterate(t) gets to no
\* later statement, so no firm is iterated, and no peril of tick t is inflicted.
C5_StaleHeadIsFatal ==
    StaleHead => /\ ~PerilsDone
                 /\ \A c \in riskcategories : <<c, t>> \notin inflicted

\* ------------------------------------------------------------------------ C6

\* The place of a logged step in the order of iterate(t).
C6_Rank(step) ==
    CASE step = "adjust_market_premium" -> 1
      [] step = "effect_payments" -> 2
      [] step = "inflict_peril" -> 3
      [] step = "shuffle_risks" -> 4
      [] step = "reset_reinsurance_weights" -> 5
      [] step = "reinagent.iterate" -> 6
      [] step = "clear_reinrisks" -> 7
      [] step = "reset_insurance_weights" -> 8
      [] step = "agent.iterate" -> 9

\* How often step occurs in the log.
C6_Count(step) == Cardinality({ i \in DOMAIN log : log[i] = step })

\* The tick the log is of.
C6_Tick == IF TickEnd THEN t - 1 ELSE t

\* C6: within every iterate(t) the steps occur in the order market premium,
\* settlement, perils, shuffle, reinsurer weights, every reinsurer's iterate,
\* clearing of the reinsurance pool, insurer weights, every insurer's iterate:
\* the log of a tick never steps back, and a finished tick has run every step
\* once, every firm's iterate once, and the peril of every category that fired.
C6_FixedStepOrder ==
    /\ \A i \in 1..(Len(log) - 1) :
         \/ C6_Rank(log[i]) < C6_Rank(log[i + 1])
         \/ /\ log[i] = log[i + 1]
            /\ log[i] \in {"inflict_peril", "reinagent.iterate", "agent.iterate"}
    /\ C6_Count("inflict_peril")
         = Cardinality({ c \in riskcategories : <<c, C6_Tick>> \in inflicted })
    /\ TickEnd =>
         /\ \A step \in {"adjust_market_premium", "effect_payments", "shuffle_risks",
                         "reset_reinsurance_weights", "clear_reinrisks",
                         "reset_insurance_weights"} : C6_Count(step) = 1
         /\ C6_Count("reinagent.iterate") = Len(reinsurancefirms)
         /\ C6_Count("agent.iterate") = Len(insurancefirms)

\* iterate(1) has returned: it settled an obligation due at 1 and inflicted the
\* perils of both categories.
C6_Witness ==
    /\ pc = "adjust_market_premium" /\ t = 2
    /\ C6_Count("inflict_peril") = 2
    /\ \E i \in DOMAIN paid : paid[i].times = <<1>>

\* ------------------------------------------------------------------------ C7

\* The covered interval x of a category of total value total_value, as value
\* fractions, lies in [deductible_fraction, limit_fraction].
C7_InBand(x, total_value) ==
    /\ np_reinsurance_deductible_fraction * total_value
         <= x.deductible * fraction_denominator
    /\ x.limit * fraction_denominator
         <= np_reinsurance_limit_fraction * total_value

\* C7: after any sequence of issue, expiry and rollover, with the underwritten
\* value changing in between, the covered value-fraction intervals of every
\* category are pairwise disjoint and contained in
\* [deductible_fraction, limit_fraction].
C7_CoveredDisjointInBand ==
    \A c \in riskcategories :
      /\ \A x, y \in reinsurance_profile[c] :
           x # y => (x.limit <= y.deductible \/ y.limit <= x.deductible)
      /\ underwritten_risk_characterisation[c].total_value > 0 =>
           \A x \in reinsurance_profile[c] :
             C7_InBand(x, underwritten_risk_characterisation[c].total_value)

\* ------------------------------------------------------------------------ C8

\* The last call of insurer i1 was a tranche request that found risks in the
\* category.
TrancheRequest ==
    request.outcome \in {"risks", "give_up", "IndexError", "AssertionError"}

\* C8: for total_value = 1000, deductible_fraction = 0.1, limit_fraction = 0.5,
\* min_tranches = 3 and an empty profile, the request emits exactly 3 pairwise
\* disjoint tranches whose union is [100, 500), each at least 20 wide, as
\* risks with deductible_fraction = lower / 1000 and limit_fraction = upper / 1000.
C8_ThreeTranchesOfEmptyProfile ==
    (TrancheRequest /\ request.total_value = 1000 /\ ~request.had_contracts) =>
      /\ request.outcome = "risks"
      /\ Len(request.tranches) = 3
      /\ Len(request.risks) = 3
      /\ \A i \in 1..3 :
           /\ request.tranches[i][2] - request.tranches[i][1] >= 20
           /\ 100 <= request.tranches[i][1] /\ request.tranches[i][2] <= 500
           /\ request.risks[i].deductible_fraction = <<request.tranches[i][1], 1000>>
           /\ request.risks[i].limit_fraction = <<request.tranches[i][2], 1000>>
      /\ \A i, j \in 1..3 :
           i # j => \/ request.tranches[i][2] <= request.tranches[j][1]
                    \/ request.tranches[j][2] <= request.tranches[i][1]
      /\ (request.tranches[1][2] - request.tranches[1][1])
           + (request.tranches[2][2] - request.tranches[2][1])
           + (request.tranches[3][2] - request.tranches[3][1]) = 400

\* Insurer i1, holding no reinsurance, has requested reinsurance for a
\* category of total value 1000 and the three risks are in the pool.
C8_Witness ==
    /\ request.outcome = "risks"
    /\ request.total_value = 1000
    /\ ~request.had_contracts
    /\ Len(reinrisks) = 3

\* ------------------------------------------------------------------------ C9

\* C9: after the discard step no remaining interval is narrower than
\* max(2, 5% of (limit_fraction - deductible_fraction) * total_value).
C9_NoNarrowIntervalKept ==
    TrancheRequest =>
      \A i \in DOMAIN request.kept :
        LET width == request.kept[i][2] - request.kept[i][1]
        IN  /\ width >= 2
            /\ width * 100 * fraction_denominator
                 >= 5 * (np_reinsurance_limit_fraction
                           - np_reinsurance_deductible_fraction)
                      * request.total_value

\* ----------------------------------------------------------------------- C10

\* C10: whenever at least one interval survives clipping and discarding, the
\* request emits at least min_tranches tranches, also when the firm already
\* holds reinsurance contracts.
C10_AtLeastMinTranches ==
    (TrancheRequest /\ request.kept # <<>>) =>
      /\ request.outcome = "risks"
      /\ Len(request.risks) >= min_tranches

\* ----------------------------------------------------------------------- C11

\* C11: whenever the category holds risks and clipping and discarding leave no
\* interval (nothing uncovered at all, or only intervals above the limit or
\* below the deductible), the request returns None: no risk is published and
\* no error is raised.
C11_NoIntervalGivesUp ==
    (TrancheRequest /\ request.kept = <<>>) =>
      /\ request.outcome = "give_up"
      /\ request.risks = <<>>
      /\ pc # "aborted"

\* ----------------------------------------------------------------------- C12

\* Nothing the simulation or the firm holds changes, and the run goes on.
C12_NoAction ==
    /\ UNCHANGED <<reinrisks, money_supply, obligations, cash, paid>>
    /\ pc' = pc

\* C12: when the firm has no underwritten risk in a category, a tranche
\* request and a cat-bond issuance for it publish no risk, create no contract
\* or bond, move no cash, register no obligation and raise no error, and
\* refresh_reinrisk returns no risk: a rollover only releases the old contract.
C12_ZeroRisksNoAction ==
    [][ /\ (~asked /\ asked'
              /\ underwritten_risk_characterisation[request'.category].number_risks = 0)
          => /\ C12_NoAction
             /\ request'.outcome = "no_risks"
             /\ request'.risks = <<>>
             /\ reinsurance_profile' = reinsurance_profile
        /\ (pc = "reinsurers" /\ request' # request /\ request'.outcome = "rollover"
              /\ underwritten_risk_characterisation[request'.category].number_risks = 0)
          => /\ C12_NoAction
             /\ request'.risks = <<>>
             /\ reinsurance_profile' =
                  [reinsurance_profile EXCEPT ![request'.category] =
                     @ \ {[deductible |-> request'.old_contract.deductible,
                           limit |-> request'.old_contract.limit]}] ]_vars

\* A contract issued while its category held risks has expired after the
\* category lost them all: its renewal gave no risk and released the interval.
C12_Witness ==
    /\ request.outcome = "rollover"
    /\ request.risks = <<>>
    /\ underwritten_risk_characterisation[request.category].number_risks = 0
    /\ reinsurance_profile[request.category] = {}

\* ----------------------------------------------------------------------- C13

\* The claims of the tick in category c: what the proportional contracts of
\* the category have accumulated.
RECURSIVE CategoryDamage(_, _)
CategoryDamage(contracts, c) ==
    IF contracts = <<>> THEN 0
    ELSE (IF Head(contracts).category = c
             /\ Head(contracts).insurancetype = "proportional"
          THEN Head(contracts).current_claim ELSE 0)
         + CategoryDamage(Tail(contracts), c)

\* The layers of the profile whose interval [deductible, limit) the realised
\* damage of their category reaches.
ReachedLayers ==
    { x \in all_contracts(reinsurance_profile) :
        /\ CategoryDamage(underwritten_contracts, x.category) > 0
        /\ x.deductible < CategoryDamage(underwritten_contracts, x.category)
        /\ x.deductible < x.limit }

\* A step that is a call of make_reinsurance_claims.
Settles == settlement' # settlement

\* C13: make_reinsurance_claims explodes exactly the layers whose interval
\* [deductible, limit) the realised damage of their category reaches; no other
\* reinsurance contract is exploded: no layer of a category without claims
\* and no reinsurance linked to a contract whose claim of the tick is zero.
C13_ExplodesExactlyReachedLayers ==
    [][Settles =>
         /\ { [category |-> x.category, deductible |-> x.deductible,
               limit |-> x.limit] : x \in settlement'.exploded } = ReachedLayers
         /\ \A x \in settlement'.linked :
               underwritten_contracts[x.contract].current_claim > 0]_vars

\* ----------------------------------------------------------------------- C14

\* A settlement that is not the first one of its tick.
SettledAgain == settlement.calls > 1

\* C14: a claim is settled at most once: a second make_reinsurance_claims in
\* the same tick reads zero from every contract, so it finds zero claims in
\* every category and explodes no layer of the profile.
C14_SecondSettlementIsEmpty ==
    [][(Settles /\ settlement.calls > 0 /\ settlement.time = t) =>
         /\ \A i \in DOMAIN underwritten_contracts :
               underwritten_contracts[i].current_claim = 0
         /\ \A c \in riskcategories : settlement'.claims_this_turn[c] = 0
         /\ settlement'.exploded = {}
         /\ \A x \in settlement'.linked : x.damage_extent = 0]_vars

\* A second settlement in a tick whose first settlement read a claim in a
\* category with a layer in force.
C14_Witness ==
    /\ SettledAgain
    /\ settlement.read > 0
    /\ settlement.time = t
    /\ pc = "insurers"
    /\ \E i \in DOMAIN underwritten_contracts :
          /\ underwritten_contracts[i].insurancetype = "proportional"
          /\ underwritten_contracts[i].category = 0
    /\ \E x \in reinsurance_profile[0] : x.deductible < settlement.read

\* ----------------------------------------------------------------------- C15

\* A step that is a call of adjust_capacity_target.
Adjusts ==
    called_at'["adjust_capacity_target"] # called_at["adjust_capacity_target"]

\* Numerator and denominator of the ratio the call computes:
\* (target + reinsurance_estimate) / (max_var + reinsurance_estimate).
RatioNum == RAdd(capacity_target, decision'.estimate)
RatioDen == RAdd(<<decision'.max_var, 1>>, decision'.estimate)

\* The ratio lies above, below, at the threshold x; the denominator is never
\* negative, and a ratio with denominator zero is taken as infinite.
RatioAbove(x) == RatioDen = <<0, 1>> \/ RLess(RMul(x, RatioDen), RatioNum)
RatioBelow(x) == RatioDen # <<0, 1>> /\ RLess(RatioNum, RMul(x, RatioDen))
RatioAt(x) == RatioDen # <<0, 1>> /\ RatioNum = RMul(x, RatioDen)

\* C15 as amended: a ratio above increment_threshold multiplies the target by
\* increment_factor; otherwise a ratio below decrement_threshold multiplies
\* it by decrement_factor; otherwise the target is unchanged.  The increment
\* test comes first, so that with a decrement threshold above the increment
\* threshold a ratio between the two, or equal to the increment threshold,
\* is not left unchanged; a ratio with denominator zero counts as infinite.
C15_IncrementBeforeDecrement ==
    [][Adjusts =>
         capacity_target' =
           IF RatioAbove(agent_parameters.increment_threshold)
           THEN RMul(capacity_target, agent_parameters.increment_factor)
           ELSE IF RatioBelow(agent_parameters.decrement_threshold)
           THEN RMul(capacity_target, agent_parameters.decrement_factor)
           ELSE capacity_target]_vars

\* C15 as stated: for every configuration of thresholds and factors, a ratio
\* above increment_threshold multiplies the target by increment_factor, a
\* ratio below decrement_threshold multiplies it by decrement_factor, and a
\* ratio strictly between the thresholds or equal to one of them leaves the
\* target unchanged.
C15_HysteresisAsStated ==
    [][(Adjusts /\ RatioDen # <<0, 1>>) =>
         /\ RatioAbove(agent_parameters.increment_threshold) =>
               capacity_target' =
                 RMul(capacity_target, agent_parameters.increment_factor)
         /\ RatioBelow(agent_parameters.decrement_threshold) =>
               capacity_target' =
                 RMul(capacity_target, agent_parameters.decrement_factor)
         /\ ( \/ RatioAt(agent_parameters.increment_threshold)
              \/ RatioAt(agent_parameters.decrement_threshold)
              \/ /\ ~RatioAbove(agent_parameters.increment_threshold)
                 /\ ~RatioBelow(agent_parameters.decrement_threshold) ) =>
               capacity_target' = capacity_target]_vars

\* adjust_capacity_target has been called with a ratio between the increment
\* threshold and a higher decrement threshold, and has raised the target.
C15_Witness ==
    /\ decision.call = "adjust_capacity_target"
    /\ RLess(agent_parameters.increment_threshold,
             agent_parameters.decrement_threshold)
    /\ LET num == RAdd(decision.firm.capacity_target, decision.estimate)
           den == RAdd(<<decision.max_var, 1>>, decision.estimate)
       IN  /\ RLess(RMul(agent_parameters.increment_threshold, den), num)
           /\ RLess(num, RMul(agent_parameters.decrement_threshold, den))
    /\ capacity_target = RMul(decision.firm.capacity_target,
                              agent_parameters.increment_factor)

\* ----------------------------------------------------------------------- C16

\* The last decision was adjust_dividends.
DividendsAdjusted == decision.call = "adjust_dividends"

\* C16: after adjust_dividends(time, actual_capacity), per_period_dividend is
\* max(0, dividend_share_of_profits * profit) when actual_capacity is at
\* least capacity_target, and 0 otherwise; it is never negative.
C16_DividendOnlyAtTarget ==
    DividendsAdjusted =>
      LET share == RMul(agent_parameters.dividend_share_of_profits,
                        <<decision.profits, 1>>)
      IN  /\ per_period_dividend[1] >= 0
          /\ per_period_dividend =
               IF RLess(decision.actual_capacity, capacity_target)
               THEN <<0, 1>>
               ELSE IF share[1] > 0 THEN share ELSE <<0, 1>>

\* adjust_dividends has been called after a loss with the capacity at the
\* target: no dividend.
C16_Witness ==
    /\ DividendsAdjusted
    /\ decision.profits < 0
    /\ decision.actual_capacity = capacity_target
    /\ per_period_dividend = <<0, 1>>

\* ----------------------------------------------------------------------- C17

\* The last decision was increase_capacity, which returns get_capacity(max_var).
CapacityTaken == decision.call = "increase_capacity"

\* C17: get_capacity(max_var) returns cash plus the estimated extra capacity
\* whenever cash >= max_var, cash equal to max_var included, and cash alone
\* only when cash < max_var.
C17_ExtraWhenCashCoversVar ==
    CapacityTaken =>
      decision.capacity =
        IF decision.firm.cash >= decision.max_var
        THEN RAdd(<<decision.firm.cash, 1>>, decision.estimate)
        ELSE <<decision.firm.cash, 1>>

\* ----------------------------------------------------------------------- C18

\* The still-uncovered part of the reinsurable band of every category, as a
\* fraction of the category's value, averaged over the categories.
UncoveredFraction(firm) ==
    get_reinsurable_fraction(
        [c \in DOMAIN firm.characterisation |-> firm.characterisation[c].total_value],
        firm.profile)

\* A step that is a call of increase_capacity.
Increases == called_at'["increase_capacity"] # called_at["increase_capacity"]

\* What a call of get_capacity that counted extra capacity added to cash.
Extra(d) == RSub(d.capacity, <<d.firm.cash, 1>>)
AddsExtra(d) == d.call = "increase_capacity" /\ d.max_var < d.firm.cash

\* C18: the extra capacity get_capacity adds to cash is proportional to the
\* still-uncovered reinsurable value fraction: zero when the firm holds risks
\* and the band of every category is fully covered, and twice what an earlier call with the same
\* max_var added when the uncovered fraction is twice what it was then.
C18_ExtraProportionalToUncovered ==
    [][(Increases /\ AddsExtra(decision')) =>
         /\ ( /\ UncoveredFraction(decision'.firm) = <<0, 1>>
              /\ \E c \in riskcategories :
                    decision'.firm.characterisation[c].number_risks > 0 ) =>
               Extra(decision') = <<0, 1>>
         /\ ( /\ AddsExtra(decision)
              /\ decision.max_var = decision'.max_var
              /\ UncoveredFraction(decision'.firm)
                   = RMul(<<2, 1>>, UncoveredFraction(decision.firm)) ) =>
               Extra(decision') = RMul(<<2, 1>>, Extra(decision))]_vars

\* ----------------------------------------------------------------------- C19

\* Call i of increase_capacity_by_category published a reinsurance request or
\* went on to issue a cat bond; a call for a category without risks did not.
Acts(d, i) ==
    d.calls[i].acted /\ d.calls[i].outcome \notin {"give_up", "no_risks"}

\* The firm's market premium is strictly greater than its own average premium
\* in the category.
MarketAboveAverage(d, categ_id) ==
    RLess(get_average_premium(d.firm.contracts, categ_id),
          <<d.firm.market_premium, 1>>)

\* C19: in increase_capacity, for each category examined: a firm whose
\* capacity is under its target acts; a firm whose capacity is at or above
\* its target, equal to it included, acts only when the market premium is
\* strictly greater than its own average premium in the category.
C19_GateAtOrAboveTarget ==
    CapacityTaken =>
      \A i \in DOMAIN decision.calls :
        /\ RLess(decision.capacity, decision.firm.capacity_target) =>
              decision.calls[i].acted
        /\ ~RLess(decision.capacity, decision.firm.capacity_target) =>
              (Acts(decision, i) =>
                 MarketAboveAverage(decision, decision.calls[i].category))

\* ----------------------------------------------------------------------- C20

\* The calls in which increase_capacity published a request or went on to
\* issue a cat bond.
Actions(d) == { i \in DOMAIN d.calls : Acts(d, i) }

\* C20: in one call of increase_capacity a firm whose capacity is at or above
\* its target takes at most one action; only under target does it continue
\* through the remaining categories; each category is examined at most once.
C20_OneActionUnlessUnderTarget ==
    CapacityTaken =>
      /\ ~RLess(decision.capacity, decision.firm.capacity_target) =>
            Cardinality(Actions(decision)) <= 1
      /\ \A i, j \in DOMAIN decision.calls :
            i # j => decision.calls[i].category # decision.calls[j].category

\* ----------------------------------------------------------------------- C21

\* C21: whenever increase_capacity_by_category acts it takes exactly one of
\* the two instruments: the cat bond if and only if the reinsurance price is
\* strictly greater than the cat bond price, the reinsurance request
\* otherwise, equal prices included.
C21_CheaperInstrument ==
    CapacityTaken =>
      \A i \in DOMAIN decision.calls :
        decision.calls[i].acted =>
          decision.calls[i].kind =
            IF decision.reinsurance_price > decision.cat_bond_price
            THEN "cat_bond" ELSE "reinsurance"

\* increase_capacity has published a reinsurance request at equal prices.
C21_Witness ==
    /\ CapacityTaken
    /\ decision.reinsurance_price = decision.cat_bond_price
    /\ \E i \in DOMAIN decision.calls :
          /\ decision.calls[i].kind = "reinsurance"
          /\ decision.calls[i].outcome = "risks"

\* ----------------------------------------------------------------------- C22

\* issue_cat_bond has got past the test of number_risks and the contract of
\* the bond.
BondIssued ==
    /\ "funding" \in DOMAIN request
    /\ request.outcome \notin {"no_risks", "overlap"}

\* An amount given by bounds in millionths rounds to the given hundredths.
RoundsTo(amount, hundredths) ==
    /\ amount.high >= hundredths * (premium_scale \div 100) - premium_scale \div 200
    /\ amount.low <= hundredths * (premium_scale \div 100) + premium_scale \div 200

\* C22: a bond issued with var_this_risk = 50, a premium of 10 per period,
\* runtime 12 and interest_rate 0.01 has a discounted premium stream of 112.68,
\* the firm pays 162.68 and the bond receives what the firm pays.
C22_BondFundedWith16268 ==
    ( /\ BondIssued
      /\ request.funding.var_this_risk = 50
      /\ request.funding.per_period_premium = <<10, 1>>
      /\ request.funding.runtime = 12
      /\ interest_rate = <<1, 100>> )
    => /\ RoundsTo(request.funding.total_premium, 11268)
       /\ RoundsTo(request.funding.paid, 16268)
       /\ request.funding.received = request.funding.paid

\* ----------------------------------------------------------------------- C23

\* C23: a bond issued for a category that holds risks is funded in the tick
\* of its issue with one payment of var_this_risk + the discounted premium
\* stream, its contract carries a periodic premium of zero, and exactly one
\* new cat-bond agent is registered.
C23_BondFundedAtIssue ==
    BondIssued =>
      /\ request.funding.paid = request.funding.amount
      /\ request.funding.received = request.funding.amount
      /\ request.funding.per_value_reinsurance_premium = 0
      /\ request.funding.registered = 1

\* ----------------------------------------------------------------------- C24

\* C24: for every aggregate capital, negative totals included, the market
\* premium lies between lower_price_limit * norm_premium and
\* upper_price_limit * norm_premium, and it does not increase with capital.
C24_PremiumWithinCorridor ==
    /\ norm_premium_no_risks * lower_price_limit <= market_premium
    /\ market_premium <= norm_premium_no_risks * upper_price_limit
    /\ \A c1 \in CapitalLevels, c2 \in CapitalLevels :
         c1 <= c2 => adjust_market_premium(c1) >= adjust_market_premium(c2)

\* ----------------------------------------------------------------------- C25

\* The weights of a class were reset in this step.
ResetsInsurance == pc = "reset_insurance_weights" /\ pc' # pc
ResetsReinsurance == pc = "reset_reinsurance_weights" /\ pc' # pc

\* floor(cash_i / total cash of the class * pool size)
CashShare(firm, class, pool_size) ==
    (cash[firm] * pool_size) \div SumCash(cash, class)

\* C25: after reset_insurance_weights (reset_reinsurance_weights) the weight
\* of every firm of the class is floor(cash_i / total cash of the class *
\* size of the pool), whether or not the firm solicited risks in the tick
\* before.
C25_WeightsAreCashShares ==
    [][ /\ (ResetsInsurance /\ SumCash(cash, insurancefirms) > 0) =>
             \A i \in DOMAIN insurancefirms :
               \A w \in int64(weights'.insurancefirm_weights[i]) :
                 w = CashShare(insurancefirms[i], insurancefirms, weights.risks)
        /\ (ResetsReinsurance /\ SumCash(cash, reinsurancefirms) > 0) =>
             \A i \in DOMAIN reinsurancefirms :
               \A w \in int64(weights'.reinsurancefirm_weights[i]) :
                 w = CashShare(reinsurancefirms[i], reinsurancefirms, Len(reinrisks))
      ]_vars

\* ----------------------------------------------------------------------- C26

\* iterate has inflicted the perils of the tick in this step.
InflictsPerils == pc = "perils" /\ pc' # pc

\* C26: when category c fires at tick t, explode is called exactly once on
\* every contract of category c in the insurer's underwritten_contracts, each
\* with its own draws, and on no contract of a category that does not fire.
C26_ExplodesContractsOfCategory ==
    [][InflictsPerils =>
         /\ DOMAIN underwritten_contracts' = DOMAIN underwritten_contracts
         /\ \A i \in DOMAIN underwritten_contracts :
              IF <<underwritten_contracts[i].category, t>> \in inflicted'
              THEN \E claim \in Damages :
                     underwritten_contracts'[i] =
                       explode(underwritten_contracts[i], claim)
              ELSE underwritten_contracts'[i] = underwritten_contracts[i]
      ]_vars

\* Category 0 has fired in this tick and category 1 has not; of two contracts
\* of category 0 one has a claim and the other has none, and a contract of
\* category 1 has none.
C26_Witness ==
    /\ pc = "shuffle_risks"
    /\ <<0, t>> \in inflicted
    /\ <<1, t>> \notin inflicted
    /\ \E i, j, l \in DOMAIN underwritten_contracts :
         /\ underwritten_contracts[i].category = 0
         /\ underwritten_contracts[j].category = 0
         /\ underwritten_contracts[l].category = 1
         /\ underwritten_contracts[i].current_claim = 150
         /\ underwritten_contracts[j].current_claim = 0
         /\ underwritten_contracts[l].current_claim = 0

\* ----------------------------------------------------------------------- C27

\* C27: a run saved after tick t and resumed by resume.main executes every
\* tick of [0, max_time) exactly once and in order across its two parts, and
\* ends as the uninterrupted run ends: finished, after max_time ticks.
C27_ResumedRunIteratesEveryTickOnce ==
    run.resumed =>
      /\ pc # "aborted"
      /\ run.ticks = [i \in 1..Len(run.ticks) |-> i - 1]
      /\ pc = "finished" => Len(run.ticks) = max_time

\* ----------------------------------------------------------------------- C28

\* The records original runs with the given replication id had written when
\* the last replicating run restored.
WrittenBy(replic_ID) ==
    { [schedule |-> <<run.restored.written[i].schedule>>,
       randomseed |-> <<run.restored.written[i].randomseed>>] :
        i \in { j \in DOMAIN run.restored.written :
                  run.restored.written[j].replic_ID = replic_ID } }

\* C28: what a replicating run with id k loads is what the original run with
\* id k wrote, whatever the order of the original runs and whatever the
\* files held before.
C28_RestoresWhatRunWrote ==
    (run.restored.replic_ID # None /\ WrittenBy(run.restored.replic_ID) # {}) =>
      /\ run.restored.found
      /\ [schedule |-> run.restored.schedule,
          randomseed |-> run.restored.randomseed]
           \in WrittenBy(run.restored.replic_ID)

\* ----------------------------------------------------------------------- C29

\* C29: a simulation configured with a reinsurance type other than
\* "proportional" and "non-proportional" fails at setup: no statement of
\* iterate is run for it and no tick is iterated.
C29_UnknownTypeFailsAtSetup ==
    run.reinsurance_type \notin {"proportional", "non-proportional"} =>
      /\ log = <<>>
      /\ run.ticks = <<>>

\* ----------------------------------------------------------------------- C30

\* A fraction <<numerator, denominator>> lies within [0, 1].
WithinUnit(fraction) ==
    /\ fraction[2] > 0
    /\ 0 <= fraction[1]
    /\ fraction[1] <= fraction[2]

\* C30: the renewal risk refresh_reinrisk returns has the deductible_fraction
\* and limit_fraction of the expiring layer, whatever the change of the
\* category's total value since the layer was issued, so that both fractions
\* lie within [0, 1].
C30_RenewalKeepsFractions ==
    (request.outcome = "rollover" /\ request.risks # <<>>) =>
      /\ WithinUnit(request.risks[1].deductible_fraction)
      /\ WithinUnit(request.risks[1].limit_fraction)

\* ----------------------------------------------------------------------- C31

\* C31: for every sequence of drawn inter-arrival gaps, the schedule that
\* setup_risk_categories builds for a category is strictly increasing and
\* every event time in it is an integer below max_time.
C31_ScheduleStrictlyIncreasing ==
    \A c \in DOMAIN schedule_0 :
      /\ \A i \in DOMAIN schedule_0[c] :
           /\ schedule_0[c][i] \in Int
           /\ schedule_0[c][i] < max_time
      /\ \A i, j \in DOMAIN schedule_0[c] :
           i < j => schedule_0[c][i] < schedule_0[c][j]

\* ----------------------------------------------------------------------- C32

\* C32: for every save_iter N >= 1, the default among them, a run of more
\* than N ticks has a tick among its first N + 1 whose save condition holds,
\* and the snapshot file is written by the time that tick was iterated.
C32_SnapshotAfterSaveIter ==
    run.save_iter >= 1 =>
      /\ \E time \in 0..run.save_iter : time % save_period = run.save_iter
      /\ (max_time > run.save_iter /\ Len(run.ticks) > run.save_iter) =>
           data.simulation_save # <<>>

\* ----------------------------------------------------------------------- C33

\* C33: a call of increase_capacity_by_category that is not forced, for a
\* category in which the firm has no underwritten contract (so that
\* get_average_premium returns 0), calls neither issue_cat_bond nor
\* ask_reinsurance_non_proportional_by_category and returns False.
C33_EmptyCategoryNotReinsured ==
    CapacityTaken =>
      \A i \in DOMAIN decision.calls :
        ( /\ ~decision.calls[i].force
          /\ total_weight(decision.firm.contracts, decision.calls[i].category) = 0 ) =>
            /\ get_average_premium(decision.firm.contracts,
                                   decision.calls[i].category) = <<0, 1>>
            /\ decision.calls[i].kind = "none"
            /\ ~decision.calls[i].acted

\* ----------------------------------------------------------------------- C34

\* A step that adds requests to the reinsurance-request pool, and one that
\* removes requests from it.
PoolGrows == Len(reinrisks') > Len(reinrisks)
PoolShrinks == Len(reinrisks') < Len(reinrisks)

\* C34: requests join the reinsurance-request pool only while the insurers
\* iterate; the pool is empty whenever the insurers of a tick begin to
\* iterate; requests leave the pool only while the reinsurers iterate (taken
\* by one of them) or in the statement that follows, which drops every
\* request left.  A request published in tick t is therefore offered in the
\* reinsurer phase of tick t + 1 and in no later one.
C34_RequestsLiveOneReinsurerPhase ==
    [][ /\ PoolGrows => pc = "insurers"
        /\ PoolShrinks => pc \in {"reinsurers", "clear_reinrisks"}
        /\ pc = "clear_reinrisks" => reinrisks' = <<>>
        /\ (pc # "insurers" /\ pc' = "insurers") => reinrisks' = <<>> ]_vars

\* A request published in the tick before was not taken by the reinsurers
\* of this tick and is about to be dropped.
C34_Witness ==
    /\ t >= 1
    /\ pc = "clear_reinrisks"
    /\ reinrisks # <<>>

\* ----------------------------------------------------------------------- C35

\* The weights a reset left are integers in [0, pool_size], whatever np.int64
\* made of them, and sum to at most pool_size.
WeightsWithinPool(class_weights, pool_size) ==
    /\ \A i \in DOMAIN class_weights :
         \A w \in int64(class_weights[i]) : 0 <= w /\ w <= pool_size
    /\ \A i \in DOMAIN class_weights : class_weights[i].finite
    /\ sum([i \in DOMAIN class_weights |-> class_weights[i].value]) <= pool_size

\* C35: after reset_insurance_weights (reset_reinsurance_weights) every
\* weight of the class is an integer in [0, size of the pool] and the weights
\* of the class sum to at most the size of the pool, also when every firm of
\* the class reported zero cash or none solicited in the tick before.
C35_WeightsWithinPool ==
    [][ /\ ResetsInsurance =>
             WeightsWithinPool(weights'.insurancefirm_weights, weights.risks)
        /\ ResetsReinsurance =>
             WeightsWithinPool(weights'.reinsurancefirm_weights, Len(reinrisks))
      ]_vars

\* ----------------------------------------------------------------------- C36

\* The risks handed out and not returned, over all insurers.
HandedOut(w) == sum([i \in DOMAIN w.handed_out |-> w.handed_out[i]])

\* Insurer number i is handed risks by solicit_insurance_requests in this step.
Solicits(i) ==
    /\ insurancefirms[i] \notin weights.solicited
    /\ insurancefirms[i] \in weights'.solicited

\* The returned risks at the end of the pool that leave it in this step.
TakenFromReturned ==
    SubSeq(weights.returned, 1, Len(weights.returned) - Len(weights'.returned))

\* C36: within a tick the primary-risk pool is partitioned.  The risks
\* solicit_insurance_requests hands an insurer leave the pool and are handed
\* to no other insurer; none of them is a risk another insurer returned with
\* return_risks in the same tick; and the number of risks in the pool plus
\* those handed out and not returned is the same after every step.
C36_PoolPartitioned ==
    [][ /\ weights'.risks + HandedOut(weights') = weights.risks + HandedOut(weights)
        /\ \A i \in DOMAIN insurancefirms :
             Solicits(i) =>
               /\ weights'.handed_out[i] - weights.handed_out[i]
                    = weights.risks - weights'.risks
               /\ \A j \in DOMAIN insurancefirms \ {i} :
                    weights'.handed_out[j] = weights.handed_out[j]
               /\ \A n \in DOMAIN TakenFromReturned :
                    TakenFromReturned[n] = insurancefirms[i]
      ]_vars

\* In one tick both insurers were handed risks and the first of them has
\* returned one, which lies in the pool.
C36_Witness ==
    /\ pc = "insurers"
    /\ SeqRange(insurancefirms) \subseteq weights.solicited
    /\ \A i \in DOMAIN insurancefirms : weights.handed_out[i] > 0
    /\ insurancefirms[1] \in SeqRange(weights.returned)

\* ----------------------------------------------------------------------- C37

\* The obligations registered with the simulation for the bond of the last
\* issue_cat_bond: var_this_risk, owed to the issuing firm, due in the tick
\* of the issue.
BondObligations ==
    { i \in DOMAIN paid :
        /\ paid[i].amount = request.funding.var_this_risk
        /\ paid[i].recipient = insurancefirms[1]
        /\ paid[i].due_time = request.time
        /\ paid[i].registered = request.time }

\* effect_payments of the tick after the issue has run.
SettledAfterIssue ==
    \/ t > request.time + 1
    \/ t = request.time + 1 /\ pc \notin {"adjust_market_premium", "effect_payments"}

\* C37: issue_cat_bond registers exactly one obligation of var_this_risk from
\* the simulation to the issuing firm, due in the tick of the issue; once
\* effect_payments of the following tick has settled it, the firm's cash has
\* changed by minus the discounted premium stream and the money supply has
\* decreased by var_this_risk.
C37_BondSoldToSimulation ==
    BondIssued =>
      /\ Cardinality(BondObligations) = 1
      /\ SettledAfterIssue =>
           /\ money_supply = money_supply_0 - request.funding.var_this_risk
           /\ (initial_cash - cash[insurancefirms[1]]) * premium_scale
                >= request.funding.total_premium.low
           /\ (initial_cash - cash[insurancefirms[1]]) * premium_scale
                <= request.funding.total_premium.high

\* ----------------------------------------------------------------------- C38

\* C38: a call of adjust_capacity_target with max_var = 0 has max_var +
\* reinsurance estimate = 0; the ratio counts as infinite and the capacity
\* target is multiplied by increment_factor, at every such call anew, so that
\* with a factor above 1 the target is higher after each tick without value
\* at risk than it was before.
C38_ZeroVarRaisesTarget ==
    [][(Adjusts /\ decision'.max_var = 0) =>
         /\ RatioDen = <<0, 1>>
         /\ capacity_target' =
              RMul(capacity_target, agent_parameters.increment_factor)
         /\ ( /\ RLess(<<1, 1>>, agent_parameters.increment_factor)
              /\ RLess(<<0, 1>>, capacity_target) ) =>
               RLess(capacity_target, capacity_target')]_vars

\* adjust_capacity_target has been called with max_var = 0 in two ticks and
\* has raised the target by increment_factor in each of them.
C38_Witness ==
    /\ decision.call = "adjust_capacity_target"
    /\ decision.max_var = 0
    /\ decision.firm.capacity_target =
         RMul(<<capacity_target_0, 1>>, agent_parameters.increment_factor)
    /\ capacity_target =
         RMul(decision.firm.capacity_target, agent_parameters.increment_factor)
    /\ RLess(decision.firm.capacity_target, capacity_target)

====
